---- MODULE Spec2Model ----
(***************************************************************************)
(* Model of backend/main.py: the outline parser (parse_outline), the       *)
(* deterministic fallback generator (generate_consistent_fallback) and the *)
(* orchestration around them (call_gemini, generate_presentation_content,  *)
(* api_outline, api_generate_ppt).                                         *)
(*                                                                         *)
(* A text is a sequence of characters; a character is a one-element token  *)
(* (a string naming the character), so that len(), slicing, strip(),       *)
(* splitlines() and the regular expressions are computed position by       *)
(* position as Python computes them.                                       *)
(***************************************************************************)
EXTENDS Integers, Sequences, FiniteSets, TLC

VARIABLES
    pc,          \* "call" before the function or handler runs, "done" after it returned
    input,       \* the lines the text was written from (parser specifications)
    text,        \* parse_outline's argument text
    depth,       \* content_depth
    requested,   \* requested_slides / num_slides / payload.slides
    slides,      \* the slide sequence returned
    topic,       \* topic / payload.topic
    request,     \* the request handled: its endpoint, include_images, and what Gemini and the renderer did
    ai_text,     \* what call_gemini returned: <<>> for None, <<t>> for the text t
    generated,   \* what generate_presentation_content returned: slides and content source
    source,      \* content_source of the handler
    handed,      \* the slides handed to build_ppt: <<>> when it was not called, else <<slides>>
    status,      \* the HTTP status of the response (0: none yet)
    rows,        \* the presentations table
    last_id,     \* the table's AUTOINCREMENT sequence
    total_downloads,  \* app_metrics.total_downloads
    files,       \* the number of temporary .pptx files on disk
    call,        \* the last call of a store function: its name, key, id and what it found
    sessions,    \* the save_presentation calls running at once, each on its own connection
    hf           \* the call_real_huggingface call: its position, attempts, requests and result

parser_vars == <<input, text, depth, requested, slides, topic>>
handler_vars == <<request, ai_text, generated, source, handed, status>>
store_vars == <<rows, last_id, total_downloads, files, call>>
vars == <<pc, parser_vars, handler_vars, store_vars, sessions, hf>>

----------------------------------------------------------------------------
(* Characters *)

NL == "\n"
SP == " "
\* the characters str.strip() and the regex class \s remove
WhiteSpace == {" ", "\n", "\t", "\r"}
\* the characters str.splitlines() breaks a text at
LineBreaks == {"\n", "\r"}
Digits == {"0", "1", "2", "3", "4", "5", "6", "7", "8", "9"}
\* the three bullet symbols of the startswith() test: U+2022 BULLET, '*' and
\* U+00B7 MIDDLE DOT; the two non-ASCII characters are named by code point
BulletSymbols == {"U+2022", "*", "U+00B7"}

UpperCase == <<"A","B","C","D","E","F","G","H","I","J","K","L","M","N","O","P","Q","R","S","T","U","V","W","X","Y","Z">>
LowerCase == <<"a","b","c","d","e","f","g","h","i","j","k","l","m","n","o","p","q","r","s","t","u","v","w","x","y","z">>

\* str.lower() on one character
LowerChar(c) ==
    IF \E i \in 1..26 : UpperCase[i] = c
    THEN LowerCase[CHOOSE i \in 1..26 : UpperCase[i] = c]
    ELSE c

\* str.lower()
Lower(s) == [i \in 1..Len(s) |-> LowerChar(s[i])]

----------------------------------------------------------------------------
(* Python string primitives *)

RECURSIVE SkipSpaces(_, _)
\* the first position >= i of s that holds no whitespace (Len(s) + 1 when there is none)
SkipSpaces(s, i) ==
    IF i > Len(s) \/ s[i] \notin WhiteSpace THEN i ELSE SkipSpaces(s, i + 1)

RECURSIVE SkipSpacesBack(_, _)
\* the last position <= i of s that holds no whitespace (0 when there is none)
SkipSpacesBack(s, i) ==
    IF i < 1 \/ s[i] \notin WhiteSpace THEN i ELSE SkipSpacesBack(s, i - 1)

\* str.strip()
Strip(s) ==
    LET f == SkipSpaces(s, 1)
        l == SkipSpacesBack(s, Len(s))
    IN  IF f > l THEN <<>> ELSE SubSeq(s, f, l)

RECURSIVE SkipDigits(_, _)
\* the first position >= i of s that holds no digit
SkipDigits(s, i) ==
    IF i > Len(s) \/ s[i] \notin Digits THEN i ELSE SkipDigits(s, i + 1)

\* the positions of s, in order
Indices(s) == [i \in 1..Len(s) |-> i]

\* the pieces of s between the cuts; cut k removes positions from[k]..to[k]
Pieces(s, from, to) ==
    [k \in 1..(Len(from) + 1) |->
        SubSeq(s,
               IF k = 1 THEN 1 ELSE to[k - 1] + 1,
               IF k <= Len(from) THEN from[k] - 1 ELSE Len(s))]

RECURSIVE Concat(_)
\* "".join(seq)
Concat(ss) == IF ss = <<>> THEN <<>> ELSE Head(ss) \o Concat(Tail(ss))

----------------------------------------------------------------------------
(* parse_outline *)

\* a cleaned line is kept as a bullet when len(clean_line) > 5
MinBulletLen == 5

\* "Additional strategic consideration for "
PadPrefix ==
    <<"A","d","d","i","t","i","o","n","a","l"," ","s","t","r","a","t","e","g","i","c"," ",
      "c","o","n","s","i","d","e","r","a","t","i","o","n"," ","f","o","r"," ">>

\* the end of the whitespace run of s that position i lies in
RunEnd(s, i) == SkipSpaces(s, i) - 1

\* the start of the whitespace run of s that position i lies in
RunStart(s, i) == SkipSpacesBack(s, i) + 1

\* a match of the regex \n\s*\n starts at i: re scans from the left, so a match
\* starts at the first newline of a whitespace run that holds a later newline
BlockSepStart(s, i) ==
    /\ s[i] = NL
    /\ \A k \in RunStart(s, i)..(i - 1) : s[k] # NL
    /\ \E k \in (i + 1)..RunEnd(s, i) : s[k] = NL

\* the match of \n\s*\n that starts at i ends at the last newline of the run (\s* is greedy)
BlockSepEnd(s, i) ==
    CHOOSE k \in (i + 1)..RunEnd(s, i) :
        /\ s[k] = NL
        /\ \A j \in (k + 1)..RunEnd(s, i) : s[j] # NL

\* re.split(r"\n\s*\n", s)
SplitBlocks(s) ==
    LET IsStart(i) == BlockSepStart(s, i)
        from == SelectSeq(Indices(s), IsStart)
        to == [k \in 1..Len(from) |-> BlockSepEnd(s, from[k])]
    IN  Pieces(s, from, to)

\* str.splitlines()
SplitLines(s) ==
    LET IsBreak(i) == s[i] \in LineBreaks
        at == SelectSeq(Indices(s), IsBreak)
    IN  Pieces(s, at, at)

\* [ln.strip() for ln in block.splitlines() if ln.strip()]
BlockLines(block) ==
    LET stripped == SplitLines(block)
        NonEmpty(ln) == Strip(ln) # <<>>
        kept == SelectSeq(stripped, NonEmpty)
    IN  [k \in 1..Len(kept) |-> Strip(kept[k])]

\* SlideNumberEnd without re.I: only "Slide" as spelled in the pattern matches
SlideNumberEnd_CaseSensitive(ln) ==
    IF Len(ln) >= 5 /\ SubSeq(ln, 1, 5) = <<"S", "l", "i", "d", "e">>
    THEN LET d == SkipSpaces(ln, 6)
             e == SkipDigits(ln, d)
         IN  IF e > d THEN e - 1 ELSE 0
    ELSE 0

\* the end of the match of Slide\s*\d+ at the start of ln, ignoring case (0: no match)
SlideNumberEnd(ln) ==
    IF Len(ln) >= 5 /\ Lower(SubSeq(ln, 1, 5)) = <<"s", "l", "i", "d", "e">>
    THEN LET d == SkipSpaces(ln, 6)
             e == SkipDigits(ln, d)
         IN  IF e > d THEN e - 1 ELSE 0
    ELSE 0

\* the end of the match of ^Slide\s*\d+:\s* in ln with re.I (0: no match)
TitleMarkerEnd(ln) ==
    LET e == SlideNumberEnd(ln)
    IN  IF e > 0 /\ e < Len(ln) /\ ln[e + 1] = ":"
        THEN SkipSpaces(ln, e + 2) - 1
        ELSE 0

\* re.sub(r"^Slide\s*\d+:\s*", "", title_line, flags=re.I).strip()
StripTitleMarker(ln) ==
    Strip(SubSeq(ln, TitleMarkerEnd(ln) + 1, Len(ln)))

\* group 1 of re.search(r"^(?:Slide\s*\d+[:\.]?\s*)?(.+)$", ln, re.I), stripped.
\* The optional marker is taken greedily; when it swallows the whole line the
\* regex backtracks so that (.+) gets one character: first the [:\.], else the
\* last of two or more digits, else the marker is given up altogether.
LooseTitle(ln) ==
    LET e == SlideNumberEnd(ln)
        m == IF e > 0 /\ e < Len(ln) /\ ln[e + 1] \in {":", "."} THEN e + 1 ELSE e
        g == IF e = 0 THEN 0 ELSE SkipSpaces(ln, m + 1) - 1
    IN  IF e = 0 THEN Strip(ln)
        ELSE IF g < Len(ln) THEN Strip(SubSeq(ln, g + 1, Len(ln)))
        ELSE IF m > e THEN <<ln[m]>>
        ELSE IF e - SkipSpaces(ln, 6) >= 1 THEN <<ln[e]>>
        ELSE Strip(ln)

\* the title of a block: the marker-stripped first line, or the looser
\* extraction when that is empty or a single character
ExtractTitle(ln) ==
    LET title == StripTitleMarker(ln)
    IN  IF Len(title) < 2 THEN LooseTitle(ln) ELSE title

\* BULLET_RE.sub("", ln) with BULLET_RE = ^-\s+
BulletReSub(ln) ==
    IF Len(ln) >= 2 /\ ln[1] = "-" /\ ln[2] \in WhiteSpace
    THEN SubSeq(ln, SkipSpaces(ln, 2), Len(ln))
    ELSE ln

\* clean_line before the length test: the '-' marker removed, and the symbol
\* removed only when nothing is left after that
CleanLine(ln) ==
    LET clean == BulletReSub(Strip(ln))
    IN  IF clean = <<>> /\ Strip(ln) # <<>> /\ Strip(ln)[1] \in BulletSymbols
        THEN Strip(Tail(Strip(ln)))
        ELSE clean

\* re.sub(r'\s+', ' ', s).strip()
CollapseSpaces(s) ==
    LET Keep(i) == s[i] \notin WhiteSpace \/ i = 1 \/ s[i - 1] \notin WhiteSpace
        at == SelectSeq(Indices(s), Keep)
    IN  Strip([k \in 1..Len(at) |-> IF s[at[k]] \in WhiteSpace THEN SP ELSE s[at[k]]])

\* ExtractBullets with bullets.insert(0, ...) for bullets.append(...): last line first
ExtractBullets_Reversed(lines) ==
    LET rest == Tail(lines)
        cleaned == [k \in 1..Len(rest) |-> CleanLine(rest[k])]
        LongEnough(c) == c # <<>> /\ Len(c) > MinBulletLen
        kept == SelectSeq(cleaned, LongEnough)
    IN  [k \in 1..Len(kept) |-> CollapseSpaces(kept[Len(kept) + 1 - k])]

\* the bullets of a block: every line after the first, cleaned, kept when
\* longer than 5 characters, with its whitespace runs collapsed
ExtractBullets(lines) ==
    LET rest == Tail(lines)
        cleaned == [k \in 1..Len(rest) |-> CleanLine(rest[k])]
        LongEnough(c) == c # <<>> /\ Len(c) > MinBulletLen
        kept == SelectSeq(cleaned, LongEnough)
    IN  [k \in 1..Len(kept) |-> CollapseSpaces(kept[k])]

\* TargetBullets with .get(content_depth, 5)
TargetBullets_DefaultFive(d) ==
    CASE d = "basic" -> 3
      [] d = "detailed" -> 4
      [] d = "comprehensive" -> 5
      [] OTHER -> 5

\* {"basic": 3, "detailed": 4, "comprehensive": 5}.get(content_depth, 4)
TargetBullets(d) ==
    CASE d = "basic" -> 3
      [] d = "detailed" -> 4
      [] d = "comprehensive" -> 5
      [] OTHER -> 4

\* PadBullet without .lower(): the title as it is
PadBullet_NoLower(title) == PadPrefix \o title

\* f"Additional strategic consideration for {title.lower()}"
PadBullet(title) == PadPrefix \o Lower(title)

\* MakeSlide without the [:target_bullets] slice: a block with more bullets keeps them all
MakeSlide_NoTruncate(title, bullets, target) ==
    IF Len(bullets) >= target
    THEN <<[title |-> title, bullets |-> bullets, image_path |-> "None"]>>
    ELSE IF Len(bullets) > 0
    THEN <<[title |-> title,
            bullets |-> bullets \o [k \in 1..(target - Len(bullets)) |-> PadBullet(title)],
            image_path |-> "None"]>>
    ELSE <<>>

\* MakeSlide with "else" in place of "elif bullets": a block without bullets is padded too
MakeSlide_PadEmpty(title, bullets, target) ==
    IF Len(bullets) >= target
    THEN <<[title |-> title, bullets |-> SubSeq(bullets, 1, target), image_path |-> "None"]>>
    ELSE <<[title |-> title,
            bullets |-> bullets \o [k \in 1..(target - Len(bullets)) |-> PadBullet(title)],
            image_path |-> "None"]>>

\* the slide made of a block's title and bullets: bullets[:target] when there
\* are enough, padded up to target when there are some, no slide when none
MakeSlide(title, bullets, target) ==
    IF Len(bullets) >= target
    THEN <<[title |-> title, bullets |-> SubSeq(bullets, 1, target), image_path |-> "None"]>>
    ELSE IF Len(bullets) > 0
    THEN <<[title |-> title,
            bullets |-> bullets \o [k \in 1..(target - Len(bullets)) |-> PadBullet(title)],
            image_path |-> "None"]>>
    ELSE <<>>

\* the slides one block adds to the result (one or none)
BlockSlides(block, target) ==
    LET lines == BlockLines(block)
    IN  IF lines = <<>> THEN <<>>
        ELSE LET title == ExtractTitle(lines[1])
             IN  IF title = <<>> THEN <<>>
                 ELSE MakeSlide(title, ExtractBullets(lines), target)

RECURSIVE ParseLoop_CountsBlocks(_, _, _, _, _, _)
\* ParseLoop with slide_count += 1 outside the two branches: every block counts
ParseLoop_CountsBlocks(blocks, k, acc, slide_count, target, n) ==
    IF k > Len(blocks) \/ slide_count >= n THEN acc
    ELSE ParseLoop_CountsBlocks(blocks, k + 1, acc \o BlockSlides(blocks[k], target),
                                slide_count + 1, target, n)

RECURSIVE ParseLoop(_, _, _, _, _, _)
\* the loop over the blocks from block k on, with the slides and slide_count so far
ParseLoop(blocks, k, acc, slide_count, target, n) ==
    IF k > Len(blocks) \/ slide_count >= n THEN acc
    ELSE LET new == BlockSlides(blocks[k], target)
         IN  ParseLoop(blocks, k + 1, acc \o new, slide_count + Len(new), target, n)

\* the Python slice s[:n]
SliceTo(s, n) ==
    IF n >= 0 THEN SubSeq(s, 1, IF n < Len(s) THEN n ELSE Len(s))
    ELSE SubSeq(s, 1, IF Len(s) + n > 0 THEN Len(s) + n ELSE 0)

\* ParseOutline that never looks at requested_slides: no break, no final slice
ParseOutline_Unlimited(t, d, n) ==
    IF Strip(t) = <<>> THEN <<>>
    ELSE ParseLoop(SplitBlocks(Strip(t)), 1, <<>>, 0, TargetBullets(d), Len(t))

\* parse_outline(text, content_depth, requested_slides)
ParseOutline(t, d, n) ==
    IF Strip(t) = <<>> THEN <<>>
    ELSE SliceTo(ParseLoop(SplitBlocks(Strip(t)), 1, <<>>, 0, TargetBullets(d), n), n)

----------------------------------------------------------------------------
(* generate_consistent_fallback *)

\* slide_templates["comprehensive"]: the titles and bullets are the source's, character by character
ComprehensiveTemplates(t) ==
    <<
      \* "Executive Strategic Overview: {topic}"
      [title |-> <<"E","x","e","c","u","t","i","v","e"," ","S","t","r","a","t","e","g","i","c"," ","O","v","e","r","v","i","e","w",":"," ">> \o t,
       bullets |-> <<
          \* "Comprehensive market analysis of {topic} with current industry trends and competitive landscape assessment"
          <<"C","o","m","p","r","e","h","e","n","s","i","v","e"," ","m","a","r","k","e","t"," ","a","n","a","l","y","s","i","s"," ","o","f"," ">> \o t \o <<" ","w","i","t","h"," ","c","u","r","r","e","n","t"," ","i","n","d","u","s","t","r","y"," ","t","r","e","n","d","s"," ","a","n","d"," ","c","o","m","p","e","t","i","t","i","v","e"," ","l","a","n","d","s","c","a","p","e"," ","a","s","s","e","s","s","m","e","n","t">>,
          \* "Strategic business case development with detailed ROI calculation, financial projections, and investment justification"
          <<"S","t","r","a","t","e","g","i","c"," ","b","u","s","i","n","e","s","s"," ","c","a","s","e"," ","d","e","v","e","l","o","p","m","e","n","t"," ","w","i","t","h"," ","d","e","t","a","i","l","e","d"," ","R","O","I"," ","c","a","l","c","u","l","a","t","i","o","n",","," ","f","i","n","a","n","c","i","a","l"," ","p","r","o","j","e","c","t","i","o","n","s",","," ","a","n","d"," ","i","n","v","e","s","t","m","e","n","t"," ","j","u","s","t","i","f","i","c","a","t","i","o","n">>,
          \* "Implementation roadmap detailing phased approach, resource allocation strategy, and milestone tracking"
          <<"I","m","p","l","e","m","e","n","t","a","t","i","o","n"," ","r","o","a","d","m","a","p"," ","d","e","t","a","i","l","i","n","g"," ","p","h","a","s","e","d"," ","a","p","p","r","o","a","c","h",","," ","r","e","s","o","u","r","c","e"," ","a","l","l","o","c","a","t","i","o","n"," ","s","t","r","a","t","e","g","y",","," ","a","n","d"," ","m","i","l","e","s","t","o","n","e"," ","t","r","a","c","k","i","n","g">>,
          \* "Stakeholder impact analysis covering organizational change management, training requirements, and communication strategy"
          <<"S","t","a","k","e","h","o","l","d","e","r"," ","i","m","p","a","c","t"," ","a","n","a","l","y","s","i","s"," ","c","o","v","e","r","i","n","g"," ","o","r","g","a","n","i","z","a","t","i","o","n","a","l"," ","c","h","a","n","g","e"," ","m","a","n","a","g","e","m","e","n","t",","," ","t","r","a","i","n","i","n","g"," ","r","e","q","u","i","r","e","m","e","n","t","s",","," ","a","n","d"," ","c","o","m","m","u","n","i","c","a","t","i","o","n"," ","s","t","r","a","t","e","g","y">>,
          \* "Performance measurement framework defining KPIs, success metrics, and continuous improvement processes"
          <<"P","e","r","f","o","r","m","a","n","c","e"," ","m","e","a","s","u","r","e","m","e","n","t"," ","f","r","a","m","e","w","o","r","k"," ","d","e","f","i","n","i","n","g"," ","K","P","I","s",","," ","s","u","c","c","e","s","s"," ","m","e","t","r","i","c","s",","," ","a","n","d"," ","c","o","n","t","i","n","u","o","u","s"," ","i","m","p","r","o","v","e","m","e","n","t"," ","p","r","o","c","e","s","s","e","s">>
       >>],
      \* "Technical Architecture & Innovation Strategy"
      [title |-> <<"T","e","c","h","n","i","c","a","l"," ","A","r","c","h","i","t","e","c","t","u","r","e"," ","&"," ","I","n","n","o","v","a","t","i","o","n"," ","S","t","r","a","t","e","g","y">>,
       bullets |-> <<
          \* "Technical infrastructure design including scalability considerations, integration points, and future-proofing strategies"
          <<"T","e","c","h","n","i","c","a","l"," ","i","n","f","r","a","s","t","r","u","c","t","u","r","e"," ","d","e","s","i","g","n"," ","i","n","c","l","u","d","i","n","g"," ","s","c","a","l","a","b","i","l","i","t","y"," ","c","o","n","s","i","d","e","r","a","t","i","o","n","s",","," ","i","n","t","e","g","r","a","t","i","o","n"," ","p","o","i","n","t","s",","," ","a","n","d"," ","f","u","t","u","r","e","-","p","r","o","o","f","i","n","g"," ","s","t","r","a","t","e","g","i","e","s">>,
          \* "Innovation adoption framework covering emerging technologies, partnership opportunities, and competitive advantage positioning"
          <<"I","n","n","o","v","a","t","i","o","n"," ","a","d","o","p","t","i","o","n"," ","f","r","a","m","e","w","o","r","k"," ","c","o","v","e","r","i","n","g"," ","e","m","e","r","g","i","n","g"," ","t","e","c","h","n","o","l","o","g","i","e","s",","," ","p","a","r","t","n","e","r","s","h","i","p"," ","o","p","p","o","r","t","u","n","i","t","i","e","s",","," ","a","n","d"," ","c","o","m","p","e","t","i","t","i","v","e"," ","a","d","v","a","n","t","a","g","e"," ","p","o","s","i","t","i","o","n","i","n","g">>,
          \* "Data analytics implementation with business intelligence tools, predictive modeling, and real-time dashboard development"
          <<"D","a","t","a"," ","a","n","a","l","y","t","i","c","s"," ","i","m","p","l","e","m","e","n","t","a","t","i","o","n"," ","w","i","t","h"," ","b","u","s","i","n","e","s","s"," ","i","n","t","e","l","l","i","g","e","n","c","e"," ","t","o","o","l","s",","," ","p","r","e","d","i","c","t","i","v","e"," ","m","o","d","e","l","i","n","g",","," ","a","n","d"," ","r","e","a","l","-","t","i","m","e"," ","d","a","s","h","b","o","a","r","d"," ","d","e","v","e","l","o","p","m","e","n","t">>,
          \* "Security and compliance framework addressing regulatory requirements, data protection, and risk management protocols"
          <<"S","e","c","u","r","i","t","y"," ","a","n","d"," ","c","o","m","p","l","i","a","n","c","e"," ","f","r","a","m","e","w","o","r","k"," ","a","d","d","r","e","s","s","i","n","g"," ","r","e","g","u","l","a","t","o","r","y"," ","r","e","q","u","i","r","e","m","e","n","t","s",","," ","d","a","t","a"," ","p","r","o","t","e","c","t","i","o","n",","," ","a","n","d"," ","r","i","s","k"," ","m","a","n","a","g","e","m","e","n","t"," ","p","r","o","t","o","c","o","l","s">>,
          \* "Change management strategy detailing organizational transformation, training programs, and cultural adoption measurement"
          <<"C","h","a","n","g","e"," ","m","a","n","a","g","e","m","e","n","t"," ","s","t","r","a","t","e","g","y"," ","d","e","t","a","i","l","i","n","g"," ","o","r","g","a","n","i","z","a","t","i","o","n","a","l"," ","t","r","a","n","s","f","o","r","m","a","t","i","o","n",","," ","t","r","a","i","n","i","n","g"," ","p","r","o","g","r","a","m","s",","," ","a","n","d"," ","c","u","l","t","u","r","a","l"," ","a","d","o","p","t","i","o","n"," ","m","e","a","s","u","r","e","m","e","n","t">>
       >>],
      \* "Financial Analysis & Business Impact Assessment"
      [title |-> <<"F","i","n","a","n","c","i","a","l"," ","A","n","a","l","y","s","i","s"," ","&"," ","B","u","s","i","n","e","s","s"," ","I","m","p","a","c","t"," ","A","s","s","e","s","s","m","e","n","t">>,
       bullets |-> <<
          \* "Detailed financial modeling including revenue projections, cost analysis, break-even calculation, and sensitivity analysis"
          <<"D","e","t","a","i","l","e","d"," ","f","i","n","a","n","c","i","a","l"," ","m","o","d","e","l","i","n","g"," ","i","n","c","l","u","d","i","n","g"," ","r","e","v","e","n","u","e"," ","p","r","o","j","e","c","t","i","o","n","s",","," ","c","o","s","t"," ","a","n","a","l","y","s","i","s",","," ","b","r","e","a","k","-","e","v","e","n"," ","c","a","l","c","u","l","a","t","i","o","n",","," ","a","n","d"," ","s","e","n","s","i","t","i","v","i","t","y"," ","a","n","a","l","y","s","i","s">>,
          \* "Investment justification framework covering capital expenditure, operational costs, return on investment timeline, and payback period"
          <<"I","n","v","e","s","t","m","e","n","t"," ","j","u","s","t","i","f","i","c","a","t","i","o","n"," ","f","r","a","m","e","w","o","r","k"," ","c","o","v","e","r","i","n","g"," ","c","a","p","i","t","a","l"," ","e","x","p","e","n","d","i","t","u","r","e",","," ","o","p","e","r","a","t","i","o","n","a","l"," ","c","o","s","t","s",","," ","r","e","t","u","r","n"," ","o","n"," ","i","n","v","e","s","t","m","e","n","t"," ","t","i","m","e","l","i","n","e",","," ","a","n","d"," ","p","a","y","b","a","c","k"," ","p","e","r","i","o","d">>,
          \* "Risk assessment matrix identifying operational, financial, technical, and market risks with probability-impact analysis"
          <<"R","i","s","k"," ","a","s","s","e","s","s","m","e","n","t"," ","m","a","t","r","i","x"," ","i","d","e","n","t","i","f","y","i","n","g"," ","o","p","e","r","a","t","i","o","n","a","l",","," ","f","i","n","a","n","c","i","a","l",","," ","t","e","c","h","n","i","c","a","l",","," ","a","n","d"," ","m","a","r","k","e","t"," ","r","i","s","k","s"," ","w","i","t","h"," ","p","r","o","b","a","b","i","l","i","t","y","-","i","m","p","a","c","t"," ","a","n","a","l","y","s","i","s">>,
          \* "Stakeholder value proposition detailing benefits for customers, employees, shareholders, and partners"
          <<"S","t","a","k","e","h","o","l","d","e","r"," ","v","a","l","u","e"," ","p","r","o","p","o","s","i","t","i","o","n"," ","d","e","t","a","i","l","i","n","g"," ","b","e","n","e","f","i","t","s"," ","f","o","r"," ","c","u","s","t","o","m","e","r","s",","," ","e","m","p","l","o","y","e","e","s",","," ","s","h","a","r","e","h","o","l","d","e","r","s",","," ","a","n","d"," ","p","a","r","t","n","e","r","s">>,
          \* "Strategic alignment analysis connecting to organizational goals, competitive positioning, and long-term growth objectives"
          <<"S","t","r","a","t","e","g","i","c"," ","a","l","i","g","n","m","e","n","t"," ","a","n","a","l","y","s","i","s"," ","c","o","n","n","e","c","t","i","n","g"," ","t","o"," ","o","r","g","a","n","i","z","a","t","i","o","n","a","l"," ","g","o","a","l","s",","," ","c","o","m","p","e","t","i","t","i","v","e"," ","p","o","s","i","t","i","o","n","i","n","g",","," ","a","n","d"," ","l","o","n","g","-","t","e","r","m"," ","g","r","o","w","t","h"," ","o","b","j","e","c","t","i","v","e","s">>
       >>],
      \* "Implementation Excellence & Project Management Framework"
      [title |-> <<"I","m","p","l","e","m","e","n","t","a","t","i","o","n"," ","E","x","c","e","l","l","e","n","c","e"," ","&"," ","P","r","o","j","e","c","t"," ","M","a","n","a","g","e","m","e","n","t"," ","F","r","a","m","e","w","o","r","k">>,
       bullets |-> <<
          \* "Project management methodology with agile approach, sprint planning, resource allocation, and governance structure"
          <<"P","r","o","j","e","c","t"," ","m","a","n","a","g","e","m","e","n","t"," ","m","e","t","h","o","d","o","l","o","g","y"," ","w","i","t","h"," ","a","g","i","l","e"," ","a","p","p","r","o","a","c","h",","," ","s","p","r","i","n","t"," ","p","l","a","n","n","i","n","g",","," ","r","e","s","o","u","r","c","e"," ","a","l","l","o","c","a","t","i","o","n",","," ","a","n","d"," ","g","o","v","e","r","n","a","n","c","e"," ","s","t","r","u","c","t","u","r","e">>,
          \* "Quality assurance framework covering testing protocols, performance benchmarking, user acceptance criteria, and feedback mechanisms"
          <<"Q","u","a","l","i","t","y"," ","a","s","s","u","r","a","n","c","e"," ","f","r","a","m","e","w","o","r","k"," ","c","o","v","e","r","i","n","g"," ","t","e","s","t","i","n","g"," ","p","r","o","t","o","c","o","l","s",","," ","p","e","r","f","o","r","m","a","n","c","e"," ","b","e","n","c","h","m","a","r","k","i","n","g",","," ","u","s","e","r"," ","a","c","c","e","p","t","a","n","c","e"," ","c","r","i","t","e","r","i","a",","," ","a","n","d"," ","f","e","e","d","b","a","c","k"," ","m","e","c","h","a","n","i","s","m","s">>,
          \* "Team structure and capability development outlining roles, responsibilities, skill requirements, and training programs"
          <<"T","e","a","m"," ","s","t","r","u","c","t","u","r","e"," ","a","n","d"," ","c","a","p","a","b","i","l","i","t","y"," ","d","e","v","e","l","o","p","m","e","n","t"," ","o","u","t","l","i","n","i","n","g"," ","r","o","l","e","s",","," ","r","e","s","p","o","n","s","i","b","i","l","i","t","i","e","s",","," ","s","k","i","l","l"," ","r","e","q","u","i","r","e","m","e","n","t","s",","," ","a","n","d"," ","t","r","a","i","n","i","n","g"," ","p","r","o","g","r","a","m","s">>,
          \* "Vendor and partnership strategy detailing selection criteria, contract management, performance monitoring, and relationship management"
          <<"V","e","n","d","o","r"," ","a","n","d"," ","p","a","r","t","n","e","r","s","h","i","p"," ","s","t","r","a","t","e","g","y"," ","d","e","t","a","i","l","i","n","g"," ","s","e","l","e","c","t","i","o","n"," ","c","r","i","t","e","r","i","a",","," ","c","o","n","t","r","a","c","t"," ","m","a","n","a","g","e","m","e","n","t",","," ","p","e","r","f","o","r","m","a","n","c","e"," ","m","o","n","i","t","o","r","i","n","g",","," ","a","n","d"," ","r","e","l","a","t","i","o","n","s","h","i","p"," ","m","a","n","a","g","e","m","e","n","t">>,
          \* "Operational excellence framework covering process optimization, automation opportunities, efficiency metrics, and service level agreements"
          <<"O","p","e","r","a","t","i","o","n","a","l"," ","e","x","c","e","l","l","e","n","c","e"," ","f","r","a","m","e","w","o","r","k"," ","c","o","v","e","r","i","n","g"," ","p","r","o","c","e","s","s"," ","o","p","t","i","m","i","z","a","t","i","o","n",","," ","a","u","t","o","m","a","t","i","o","n"," ","o","p","p","o","r","t","u","n","i","t","i","e","s",","," ","e","f","f","i","c","i","e","n","c","y"," ","m","e","t","r","i","c","s",","," ","a","n","d"," ","s","e","r","v","i","c","e"," ","l","e","v","e","l"," ","a","g","r","e","e","m","e","n","t","s">>
       >>],
      \* "Strategic Risk Management & Mitigation Planning"
      [title |-> <<"S","t","r","a","t","e","g","i","c"," ","R","i","s","k"," ","M","a","n","a","g","e","m","e","n","t"," ","&"," ","M","i","t","i","g","a","t","i","o","n"," ","P","l","a","n","n","i","n","g">>,
       bullets |-> <<
          \* "Comprehensive risk identification process covering operational, financial, technical, and market-related challenges"
          <<"C","o","m","p","r","e","h","e","n","s","i","v","e"," ","r","i","s","k"," ","i","d","e","n","t","i","f","i","c","a","t","i","o","n"," ","p","r","o","c","e","s","s"," ","c","o","v","e","r","i","n","g"," ","o","p","e","r","a","t","i","o","n","a","l",","," ","f","i","n","a","n","c","i","a","l",","," ","t","e","c","h","n","i","c","a","l",","," ","a","n","d"," ","m","a","r","k","e","t","-","r","e","l","a","t","e","d"," ","c","h","a","l","l","e","n","g","e","s">>,
          \* "Risk assessment methodology using probability-impact matrix and quantitative analysis techniques"
          <<"R","i","s","k"," ","a","s","s","e","s","s","m","e","n","t"," ","m","e","t","h","o","d","o","l","o","g","y"," ","u","s","i","n","g"," ","p","r","o","b","a","b","i","l","i","t","y","-","i","m","p","a","c","t"," ","m","a","t","r","i","x"," ","a","n","d"," ","q","u","a","n","t","i","t","a","t","i","v","e"," ","a","n","a","l","y","s","i","s"," ","t","e","c","h","n","i","q","u","e","s">>,
          \* "Mitigation strategy development with contingency planning and alternative scenario analysis"
          <<"M","i","t","i","g","a","t","i","o","n"," ","s","t","r","a","t","e","g","y"," ","d","e","v","e","l","o","p","m","e","n","t"," ","w","i","t","h"," ","c","o","n","t","i","n","g","e","n","c","y"," ","p","l","a","n","n","i","n","g"," ","a","n","d"," ","a","l","t","e","r","n","a","t","i","v","e"," ","s","c","e","n","a","r","i","o"," ","a","n","a","l","y","s","i","s">>,
          \* "Monitoring and control framework with early warning indicators and escalation procedures"
          <<"M","o","n","i","t","o","r","i","n","g"," ","a","n","d"," ","c","o","n","t","r","o","l"," ","f","r","a","m","e","w","o","r","k"," ","w","i","t","h"," ","e","a","r","l","y"," ","w","a","r","n","i","n","g"," ","i","n","d","i","c","a","t","o","r","s"," ","a","n","d"," ","e","s","c","a","l","a","t","i","o","n"," ","p","r","o","c","e","d","u","r","e","s">>,
          \* "Business continuity planning ensuring operational resilience and disaster recovery capabilities"
          <<"B","u","s","i","n","e","s","s"," ","c","o","n","t","i","n","u","i","t","y"," ","p","l","a","n","n","i","n","g"," ","e","n","s","u","r","i","n","g"," ","o","p","e","r","a","t","i","o","n","a","l"," ","r","e","s","i","l","i","e","n","c","e"," ","a","n","d"," ","d","i","s","a","s","t","e","r"," ","r","e","c","o","v","e","r","y"," ","c","a","p","a","b","i","l","i","t","i","e","s">>
       >>],
      \* "Performance Optimization & Strategic Roadmap"
      [title |-> <<"P","e","r","f","o","r","m","a","n","c","e"," ","O","p","t","i","m","i","z","a","t","i","o","n"," ","&"," ","S","t","r","a","t","e","g","i","c"," ","R","o","a","d","m","a","p">>,
       bullets |-> <<
          \* "Performance benchmarking against industry standards and competitor analysis for continuous improvement"
          <<"P","e","r","f","o","r","m","a","n","c","e"," ","b","e","n","c","h","m","a","r","k","i","n","g"," ","a","g","a","i","n","s","t"," ","i","n","d","u","s","t","r","y"," ","s","t","a","n","d","a","r","d","s"," ","a","n","d"," ","c","o","m","p","e","t","i","t","o","r"," ","a","n","a","l","y","s","i","s"," ","f","o","r"," ","c","o","n","t","i","n","u","o","u","s"," ","i","m","p","r","o","v","e","m","e","n","t">>,
          \* "Optimization strategies focusing on efficiency gains, cost reduction, and value enhancement opportunities"
          <<"O","p","t","i","m","i","z","a","t","i","o","n"," ","s","t","r","a","t","e","g","i","e","s"," ","f","o","c","u","s","i","n","g"," ","o","n"," ","e","f","f","i","c","i","e","n","c","y"," ","g","a","i","n","s",","," ","c","o","s","t"," ","r","e","d","u","c","t","i","o","n",","," ","a","n","d"," ","v","a","l","u","e"," ","e","n","h","a","n","c","e","m","e","n","t"," ","o","p","p","o","r","t","u","n","i","t","i","e","s">>,
          \* "Technology roadmap aligning with business strategy and emerging innovation trends"
          <<"T","e","c","h","n","o","l","o","g","y"," ","r","o","a","d","m","a","p"," ","a","l","i","g","n","i","n","g"," ","w","i","t","h"," ","b","u","s","i","n","e","s","s"," ","s","t","r","a","t","e","g","y"," ","a","n","d"," ","e","m","e","r","g","i","n","g"," ","i","n","n","o","v","a","t","i","o","n"," ","t","r","e","n","d","s">>,
          \* "Talent development and capability building programs for sustained competitive advantage"
          <<"T","a","l","e","n","t"," ","d","e","v","e","l","o","p","m","e","n","t"," ","a","n","d"," ","c","a","p","a","b","i","l","i","t","y"," ","b","u","i","l","d","i","n","g"," ","p","r","o","g","r","a","m","s"," ","f","o","r"," ","s","u","s","t","a","i","n","e","d"," ","c","o","m","p","e","t","i","t","i","v","e"," ","a","d","v","a","n","t","a","g","e">>,
          \* "Long-term strategic vision with measurable objectives and milestone tracking mechanisms"
          <<"L","o","n","g","-","t","e","r","m"," ","s","t","r","a","t","e","g","i","c"," ","v","i","s","i","o","n"," ","w","i","t","h"," ","m","e","a","s","u","r","a","b","l","e"," ","o","b","j","e","c","t","i","v","e","s"," ","a","n","d"," ","m","i","l","e","s","t","o","n","e"," ","t","r","a","c","k","i","n","g"," ","m","e","c","h","a","n","i","s","m","s">>
       >>]
    >>

\* slide_templates["detailed"]: the titles and bullets are the source's, character by character
DetailedTemplates(t) ==
    <<
      \* "Strategic Analysis Overview: {topic}"
      [title |-> <<"S","t","r","a","t","e","g","i","c"," ","A","n","a","l","y","s","i","s"," ","O","v","e","r","v","i","e","w",":"," ">> \o t,
       bullets |-> <<
          \* "Comprehensive analysis of {topic} market position and competitive landscape"
          <<"C","o","m","p","r","e","h","e","n","s","i","v","e"," ","a","n","a","l","y","s","i","s"," ","o","f"," ">> \o t \o <<" ","m","a","r","k","e","t"," ","p","o","s","i","t","i","o","n"," ","a","n","d"," ","c","o","m","p","e","t","i","t","i","v","e"," ","l","a","n","d","s","c","a","p","e">>,
          \* "Key industry trends assessment and emerging opportunity identification"
          <<"K","e","y"," ","i","n","d","u","s","t","r","y"," ","t","r","e","n","d","s"," ","a","s","s","e","s","s","m","e","n","t"," ","a","n","d"," ","e","m","e","r","g","i","n","g"," ","o","p","p","o","r","t","u","n","i","t","y"," ","i","d","e","n","t","i","f","i","c","a","t","i","o","n">>,
          \* "Strategic importance evaluation and business impact considerations"
          <<"S","t","r","a","t","e","g","i","c"," ","i","m","p","o","r","t","a","n","c","e"," ","e","v","a","l","u","a","t","i","o","n"," ","a","n","d"," ","b","u","s","i","n","e","s","s"," ","i","m","p","a","c","t"," ","c","o","n","s","i","d","e","r","a","t","i","o","n","s">>,
          \* "Implementation challenges overview and solution framework development"
          <<"I","m","p","l","e","m","e","n","t","a","t","i","o","n"," ","c","h","a","l","l","e","n","g","e","s"," ","o","v","e","r","v","i","e","w"," ","a","n","d"," ","s","o","l","u","t","i","o","n"," ","f","r","a","m","e","w","o","r","k"," ","d","e","v","e","l","o","p","m","e","n","t">>
       >>],
      \* "Technical Framework & Architecture"
      [title |-> <<"T","e","c","h","n","i","c","a","l"," ","F","r","a","m","e","w","o","r","k"," ","&"," ","A","r","c","h","i","t","e","c","t","u","r","e">>,
       bullets |-> <<
          \* "Technical architecture overview and component relationships mapping"
          <<"T","e","c","h","n","i","c","a","l"," ","a","r","c","h","i","t","e","c","t","u","r","e"," ","o","v","e","r","v","i","e","w"," ","a","n","d"," ","c","o","m","p","o","n","e","n","t"," ","r","e","l","a","t","i","o","n","s","h","i","p","s"," ","m","a","p","p","i","n","g">>,
          \* "Methodology explanation and implementation best practices"
          <<"M","e","t","h","o","d","o","l","o","g","y"," ","e","x","p","l","a","n","a","t","i","o","n"," ","a","n","d"," ","i","m","p","l","e","m","e","n","t","a","t","i","o","n"," ","b","e","s","t"," ","p","r","a","c","t","i","c","e","s">>,
          \* "Case study analysis with real-world application examples"
          <<"C","a","s","e"," ","s","t","u","d","y"," ","a","n","a","l","y","s","i","s"," ","w","i","t","h"," ","r","e","a","l","-","w","o","r","l","d"," ","a","p","p","l","i","c","a","t","i","o","n"," ","e","x","a","m","p","l","e","s">>,
          \* "Performance metrics definition and success measurement criteria"
          <<"P","e","r","f","o","r","m","a","n","c","e"," ","m","e","t","r","i","c","s"," ","d","e","f","i","n","i","t","i","o","n"," ","a","n","d"," ","s","u","c","c","e","s","s"," ","m","e","a","s","u","r","e","m","e","n","t"," ","c","r","i","t","e","r","i","a">>
       >>],
      \* "Implementation Strategy & Planning"
      [title |-> <<"I","m","p","l","e","m","e","n","t","a","t","i","o","n"," ","S","t","r","a","t","e","g","y"," ","&"," ","P","l","a","n","n","i","n","g">>,
       bullets |-> <<
          \* "Phased implementation approach with timeline and milestone planning"
          <<"P","h","a","s","e","d"," ","i","m","p","l","e","m","e","n","t","a","t","i","o","n"," ","a","p","p","r","o","a","c","h"," ","w","i","t","h"," ","t","i","m","e","l","i","n","e"," ","a","n","d"," ","m","i","l","e","s","t","o","n","e"," ","p","l","a","n","n","i","n","g">>,
          \* "Resource allocation strategy and team structure recommendations"
          <<"R","e","s","o","u","r","c","e"," ","a","l","l","o","c","a","t","i","o","n"," ","s","t","r","a","t","e","g","y"," ","a","n","d"," ","t","e","a","m"," ","s","t","r","u","c","t","u","r","e"," ","r","e","c","o","m","m","e","n","d","a","t","i","o","n","s">>,
          \* "Risk assessment framework with mitigation strategy development"
          <<"R","i","s","k"," ","a","s","s","e","s","s","m","e","n","t"," ","f","r","a","m","e","w","o","r","k"," ","w","i","t","h"," ","m","i","t","i","g","a","t","i","o","n"," ","s","t","r","a","t","e","g","y"," ","d","e","v","e","l","o","p","m","e","n","t">>,
          \* "Success metrics tracking and continuous improvement framework"
          <<"S","u","c","c","e","s","s"," ","m","e","t","r","i","c","s"," ","t","r","a","c","k","i","n","g"," ","a","n","d"," ","c","o","n","t","i","n","u","o","u","s"," ","i","m","p","r","o","v","e","m","e","n","t"," ","f","r","a","m","e","w","o","r","k">>
       >>],
      \* "Market Analysis & Competitive Positioning"
      [title |-> <<"M","a","r","k","e","t"," ","A","n","a","l","y","s","i","s"," ","&"," ","C","o","m","p","e","t","i","t","i","v","e"," ","P","o","s","i","t","i","o","n","i","n","g">>,
       bullets |-> <<
          \* "Target market segmentation and customer needs analysis"
          <<"T","a","r","g","e","t"," ","m","a","r","k","e","t"," ","s","e","g","m","e","n","t","a","t","i","o","n"," ","a","n","d"," ","c","u","s","t","o","m","e","r"," ","n","e","e","d","s"," ","a","n","a","l","y","s","i","s">>,
          \* "Competitive landscape assessment and differentiation strategy"
          <<"C","o","m","p","e","t","i","t","i","v","e"," ","l","a","n","d","s","c","a","p","e"," ","a","s","s","e","s","s","m","e","n","t"," ","a","n","d"," ","d","i","f","f","e","r","e","n","t","i","a","t","i","o","n"," ","s","t","r","a","t","e","g","y">>,
          \* "Market opportunity sizing and growth potential evaluation"
          <<"M","a","r","k","e","t"," ","o","p","p","o","r","t","u","n","i","t","y"," ","s","i","z","i","n","g"," ","a","n","d"," ","g","r","o","w","t","h"," ","p","o","t","e","n","t","i","a","l"," ","e","v","a","l","u","a","t","i","o","n">>,
          \* "Strategic positioning and value proposition development"
          <<"S","t","r","a","t","e","g","i","c"," ","p","o","s","i","t","i","o","n","i","n","g"," ","a","n","d"," ","v","a","l","u","e"," ","p","r","o","p","o","s","i","t","i","o","n"," ","d","e","v","e","l","o","p","m","e","n","t">>
       >>],
      \* "Operational Excellence & Efficiency"
      [title |-> <<"O","p","e","r","a","t","i","o","n","a","l"," ","E","x","c","e","l","l","e","n","c","e"," ","&"," ","E","f","f","i","c","i","e","n","c","y">>,
       bullets |-> <<
          \* "Process optimization and efficiency improvement initiatives"
          <<"P","r","o","c","e","s","s"," ","o","p","t","i","m","i","z","a","t","i","o","n"," ","a","n","d"," ","e","f","f","i","c","i","e","n","c","y"," ","i","m","p","r","o","v","e","m","e","n","t"," ","i","n","i","t","i","a","t","i","v","e","s">>,
          \* "Quality management and performance monitoring systems"
          <<"Q","u","a","l","i","t","y"," ","m","a","n","a","g","e","m","e","n","t"," ","a","n","d"," ","p","e","r","f","o","r","m","a","n","c","e"," ","m","o","n","i","t","o","r","i","n","g"," ","s","y","s","t","e","m","s">>,
          \* "Resource utilization and capacity planning strategies"
          <<"R","e","s","o","u","r","c","e"," ","u","t","i","l","i","z","a","t","i","o","n"," ","a","n","d"," ","c","a","p","a","c","i","t","y"," ","p","l","a","n","n","i","n","g"," ","s","t","r","a","t","e","g","i","e","s">>,
          \* "Continuous improvement and innovation implementation"
          <<"C","o","n","t","i","n","u","o","u","s"," ","i","m","p","r","o","v","e","m","e","n","t"," ","a","n","d"," ","i","n","n","o","v","a","t","i","o","n"," ","i","m","p","l","e","m","e","n","t","a","t","i","o","n">>
       >>],
      \* "Future Outlook & Strategic Recommendations"
      [title |-> <<"F","u","t","u","r","e"," ","O","u","t","l","o","o","k"," ","&"," ","S","t","r","a","t","e","g","i","c"," ","R","e","c","o","m","m","e","n","d","a","t","i","o","n","s">>,
       bullets |-> <<
          \* "Emerging trends analysis and future market developments"
          <<"E","m","e","r","g","i","n","g"," ","t","r","e","n","d","s"," ","a","n","a","l","y","s","i","s"," ","a","n","d"," ","f","u","t","u","r","e"," ","m","a","r","k","e","t"," ","d","e","v","e","l","o","p","m","e","n","t","s">>,
          \* "Strategic recommendations and implementation priorities"
          <<"S","t","r","a","t","e","g","i","c"," ","r","e","c","o","m","m","e","n","d","a","t","i","o","n","s"," ","a","n","d"," ","i","m","p","l","e","m","e","n","t","a","t","i","o","n"," ","p","r","i","o","r","i","t","i","e","s">>,
          \* "Long-term vision and growth opportunity identification"
          <<"L","o","n","g","-","t","e","r","m"," ","v","i","s","i","o","n"," ","a","n","d"," ","g","r","o","w","t","h"," ","o","p","p","o","r","t","u","n","i","t","y"," ","i","d","e","n","t","i","f","i","c","a","t","i","o","n">>,
          \* "Next steps and action plan for immediate execution"
          <<"N","e","x","t"," ","s","t","e","p","s"," ","a","n","d"," ","a","c","t","i","o","n"," ","p","l","a","n"," ","f","o","r"," ","i","m","m","e","d","i","a","t","e"," ","e","x","e","c","u","t","i","o","n">>
       >>]
    >>

\* slide_templates["basic"]: the titles and bullets are the source's, character by character
BasicTemplates(t) ==
    <<
      \* "Introduction & Overview: {topic}"
      [title |-> <<"I","n","t","r","o","d","u","c","t","i","o","n"," ","&"," ","O","v","e","r","v","i","e","w",":"," ">> \o t,
       bullets |-> <<
          \* "Core concept definition and basic overview of {topic}"
          <<"C","o","r","e"," ","c","o","n","c","e","p","t"," ","d","e","f","i","n","i","t","i","o","n"," ","a","n","d"," ","b","a","s","i","c"," ","o","v","e","r","v","i","e","w"," ","o","f"," ">> \o t,
          \* "Main purpose explanation and primary applications"
          <<"M","a","i","n"," ","p","u","r","p","o","s","e"," ","e","x","p","l","a","n","a","t","i","o","n"," ","a","n","d"," ","p","r","i","m","a","r","y"," ","a","p","p","l","i","c","a","t","i","o","n","s">>,
          \* "Key benefits summary and importance assessment"
          <<"K","e","y"," ","b","e","n","e","f","i","t","s"," ","s","u","m","m","a","r","y"," ","a","n","d"," ","i","m","p","o","r","t","a","n","c","e"," ","a","s","s","e","s","s","m","e","n","t">>
       >>],
      \* "Fundamental Concepts & Principles"
      [title |-> <<"F","u","n","d","a","m","e","n","t","a","l"," ","C","o","n","c","e","p","t","s"," ","&"," ","P","r","i","n","c","i","p","l","e","s">>,
       bullets |-> <<
          \* "Primary principles explanation and supporting concepts"
          <<"P","r","i","m","a","r","y"," ","p","r","i","n","c","i","p","l","e","s"," ","e","x","p","l","a","n","a","t","i","o","n"," ","a","n","d"," ","s","u","p","p","o","r","t","i","n","g"," ","c","o","n","c","e","p","t","s">>,
          \* "Basic functionality overview and key features"
          <<"B","a","s","i","c"," ","f","u","n","c","t","i","o","n","a","l","i","t","y"," ","o","v","e","r","v","i","e","w"," ","a","n","d"," ","k","e","y"," ","f","e","a","t","u","r","e","s">>,
          \* "Simple examples demonstration and use cases"
          <<"S","i","m","p","l","e"," ","e","x","a","m","p","l","e","s"," ","d","e","m","o","n","s","t","r","a","t","i","o","n"," ","a","n","d"," ","u","s","e"," ","c","a","s","e","s">>
       >>],
      \* "Practical Applications & Use Cases"
      [title |-> <<"P","r","a","c","t","i","c","a","l"," ","A","p","p","l","i","c","a","t","i","o","n","s"," ","&"," ","U","s","e"," ","C","a","s","e","s">>,
       bullets |-> <<
          \* "Implementation approach and basic requirements"
          <<"I","m","p","l","e","m","e","n","t","a","t","i","o","n"," ","a","p","p","r","o","a","c","h"," ","a","n","d"," ","b","a","s","i","c"," ","r","e","q","u","i","r","e","m","e","n","t","s">>,
          \* "Common use cases and application scenarios"
          <<"C","o","m","m","o","n"," ","u","s","e"," ","c","a","s","e","s"," ","a","n","d"," ","a","p","p","l","i","c","a","t","i","o","n"," ","s","c","e","n","a","r","i","o","s">>,
          \* "Success factors and best practices summary"
          <<"S","u","c","c","e","s","s"," ","f","a","c","t","o","r","s"," ","a","n","d"," ","b","e","s","t"," ","p","r","a","c","t","i","c","e","s"," ","s","u","m","m","a","r","y">>
       >>],
      \* "Key Benefits & Competitive Advantages"
      [title |-> <<"K","e","y"," ","B","e","n","e","f","i","t","s"," ","&"," ","C","o","m","p","e","t","i","t","i","v","e"," ","A","d","v","a","n","t","a","g","e","s">>,
       bullets |-> <<
          \* "Primary advantages and competitive benefits"
          <<"P","r","i","m","a","r","y"," ","a","d","v","a","n","t","a","g","e","s"," ","a","n","d"," ","c","o","m","p","e","t","i","t","i","v","e"," ","b","e","n","e","f","i","t","s">>,
          \* "Efficiency improvements and cost savings"
          <<"E","f","f","i","c","i","e","n","c","y"," ","i","m","p","r","o","v","e","m","e","n","t","s"," ","a","n","d"," ","c","o","s","t"," ","s","a","v","i","n","g","s">>,
          \* "User experience enhancements and value creation"
          <<"U","s","e","r"," ","e","x","p","e","r","i","e","n","c","e"," ","e","n","h","a","n","c","e","m","e","n","t","s"," ","a","n","d"," ","v","a","l","u","e"," ","c","r","e","a","t","i","o","n">>
       >>],
      \* "Implementation Steps & Requirements"
      [title |-> <<"I","m","p","l","e","m","e","n","t","a","t","i","o","n"," ","S","t","e","p","s"," ","&"," ","R","e","q","u","i","r","e","m","e","n","t","s">>,
       bullets |-> <<
          \* "Initial setup and configuration requirements"
          <<"I","n","i","t","i","a","l"," ","s","e","t","u","p"," ","a","n","d"," ","c","o","n","f","i","g","u","r","a","t","i","o","n"," ","r","e","q","u","i","r","e","m","e","n","t","s">>,
          \* "Deployment process and timeline overview"
          <<"D","e","p","l","o","y","m","e","n","t"," ","p","r","o","c","e","s","s"," ","a","n","d"," ","t","i","m","e","l","i","n","e"," ","o","v","e","r","v","i","e","w">>,
          \* "Training needs and user adoption strategy"
          <<"T","r","a","i","n","i","n","g"," ","n","e","e","d","s"," ","a","n","d"," ","u","s","e","r"," ","a","d","o","p","t","i","o","n"," ","s","t","r","a","t","e","g","y">>
       >>],
      \* "Summary & Next Steps"
      [title |-> <<"S","u","m","m","a","r","y"," ","&"," ","N","e","x","t"," ","S","t","e","p","s">>,
       bullets |-> <<
          \* "Key takeaways and main points summary"
          <<"K","e","y"," ","t","a","k","e","a","w","a","y","s"," ","a","n","d"," ","m","a","i","n"," ","p","o","i","n","t","s"," ","s","u","m","m","a","r","y">>,
          \* "Recommended actions and implementation priorities"
          <<"R","e","c","o","m","m","e","n","d","e","d"," ","a","c","t","i","o","n","s"," ","a","n","d"," ","i","m","p","l","e","m","e","n","t","a","t","i","o","n"," ","p","r","i","o","r","i","t","i","e","s">>,
          \* "Future considerations and expansion opportunities"
          <<"F","u","t","u","r","e"," ","c","o","n","s","i","d","e","r","a","t","i","o","n","s"," ","a","n","d"," ","e","x","p","a","n","s","i","o","n"," ","o","p","p","o","r","t","u","n","i","t","i","e","s">>
       >>]
    >>
\* slide_templates.get(content_depth, slide_templates["detailed"])
SlideTemplates(t, d) ==
    CASE d = "comprehensive" -> ComprehensiveTemplates(t)
      [] d = "detailed" -> DetailedTemplates(t)
      [] d = "basic" -> BasicTemplates(t)
      [] OTHER -> DetailedTemplates(t)

\* bullet_counts.get(content_depth, 4)
BulletCounts(d) ==
    CASE d = "basic" -> 3
      [] d = "detailed" -> 4
      [] d = "comprehensive" -> 5
      [] OTHER -> 4

DigitChars == <<"0", "1", "2", "3", "4", "5", "6", "7", "8", "9">>

RECURSIVE Decimal(_)
\* str(i) for i >= 0
Decimal(i) ==
    IF i < 10 THEN <<DigitChars[i + 1]>>
    ELSE Decimal(i \div 10) \o <<DigitChars[(i % 10) + 1]>>

\* the text one template adds: "Slide {i}: {title}\n", "- {bullet}\n" for each of
\* template['bullets'][:target_bullets], and "\n"
TemplateText(i, template, target) ==
    LET bullets == SubSeq(template.bullets, 1,
                          IF target < Len(template.bullets) THEN target ELSE Len(template.bullets))
    IN  <<"S", "l", "i", "d", "e", " ">> \o Decimal(i) \o <<":", " ">> \o template.title \o <<NL>>
        \o Concat([k \in 1..Len(bullets) |-> <<"-", " ">> \o bullets[k] \o <<NL>>])
        \o <<NL>>

\* generate_consistent_fallback(topic, num_slides, content_depth)
GenerateConsistentFallback(t, n, d) ==
    LET templates == SlideTemplates(t, d)
        m == IF n < Len(templates) THEN n ELSE Len(templates)
    IN  Concat([i \in 1..m |-> TemplateText(i, templates[i], BulletCounts(d))])

----------------------------------------------------------------------------
(* call_gemini and generate_presentation_content *)

\* sub in s (Python's "in" on strings)
Contains(s, sub) ==
    \E i \in 1..(Len(s) - Len(sub) + 1) : SubSeq(s, i, i + Len(sub) - 1) = sub

\* the generate_content calls one call_gemini makes: none without a model, else
\* the single call of its try block
GeminiCalls(gemini) == IF gemini.kind = "unconfigured" THEN 0 ELSE 1

\* call_gemini without the test for "Slide" and "-": any text is returned
CallGemini_NoStructureTest(gemini) ==
    IF gemini.kind # "text" THEN <<>>
    ELSE IF gemini.text = <<>> THEN <<>>
    ELSE <<Strip(gemini.text)>>

\* call_gemini: None (<<>>) when the model is not configured, when
\* generate_content raises, when response.text is empty and when the text lacks
\* "Slide" or "-"; else the stripped text
CallGemini(gemini) ==
    IF gemini.kind # "text" THEN <<>>
    ELSE IF gemini.text = <<>> THEN <<>>
    ELSE IF Contains(gemini.text, <<"S","l","i","d","e">>) /\ Contains(gemini.text, <<"-">>)
    THEN <<Strip(gemini.text)>>
    ELSE <<>>

\* min(3, slides)
MinAccepted(n) == IF n < 3 THEN n ELSE 3

\* generate_presentation_content with ">= 3" as the acceptance threshold
GeneratePresentationContent_AtLeast3(t, n, d, returned) ==
    LET parsed == IF returned # <<>> /\ returned[1] # <<>>
                  THEN ParseOutline(returned[1], d, n) ELSE <<>>
    IN  IF parsed # <<>> /\ Len(parsed) >= 3
        THEN [slides |-> parsed, source |-> "gemini"]
        ELSE [slides |-> ParseOutline(GenerateConsistentFallback(t, n, d), d, n),
              source |-> "fallback"]

\* generate_presentation_content(topic, slides, content_depth), given what call_gemini returned
GeneratePresentationContent(t, n, d, returned) ==
    LET parsed == IF returned # <<>> /\ returned[1] # <<>>
                  THEN ParseOutline(returned[1], d, n) ELSE <<>>
    IN  IF parsed # <<>> /\ Len(parsed) >= MinAccepted(n)
        THEN [slides |-> parsed, source |-> "gemini"]
        ELSE [slides |-> ParseOutline(GenerateConsistentFallback(t, n, d), d, n),
              source |-> "fallback"]

----------------------------------------------------------------------------
(* The handlers' minimal fallback and the store *)

\* minimal_text of api_outline (main.py:1005-1010), by content_depth
OutlineMinimalText(t, d) ==
    IF d = "comprehensive" THEN
        <<"S","l","i","d","e"," ","1",":"," ","E","x","e","c","u","t","i","v","e"," ","O","v","e","r","v","i","e","w"," ","o","f"," ">>
        \o t
        \o <<"\n","-"," ","C","o","m","p","r","e","h","e","n","s","i","v","e"," ","m","a","r","k","e","t"," ","a","n","a","l","y","s","i","s"," ","a","n","d"," ","s","t","r","a","t","e","g","i","c"," ","p","o","s","i","t","i","o","n","i","n","g","\n","-"," ","F","i","n","a","n","c","i","a","l"," ","p","r","o","j","e","c","t","i","o","n","s"," ","a","n","d"," ","r","e","t","u","r","n"," ","o","n"," ","i","n","v","e","s","t","m","e","n","t"," ","c","a","l","c","u","l","a","t","i","o","n","\n","-"," ","I","m","p","l","e","m","e","n","t","a","t","i","o","n"," ","r","o","a","d","m","a","p"," ","w","i","t","h"," ","r","e","s","o","u","r","c","e"," ","a","l","l","o","c","a","t","i","o","n"," ","s","t","r","a","t","e","g","y","\n","-"," ","R","i","s","k"," ","a","s","s","e","s","s","m","e","n","t"," ","a","n","d"," ","m","i","t","i","g","a","t","i","o","n"," ","p","l","a","n","n","i","n","g"," ","f","r","a","m","e","w","o","r","k","\n","-"," ","P","e","r","f","o","r","m","a","n","c","e"," ","m","e","t","r","i","c","s"," ","a","n","d"," ","s","u","c","c","e","s","s"," ","m","e","a","s","u","r","e","m","e","n","t"," ","c","r","i","t","e","r","i","a">>
    ELSE IF d = "detailed" THEN
        <<"S","l","i","d","e"," ","1",":"," ","S","t","r","a","t","e","g","i","c"," ","A","n","a","l","y","s","i","s"," ","o","f"," ">>
        \o t
        \o <<"\n","-"," ","M","a","r","k","e","t"," ","o","v","e","r","v","i","e","w"," ","a","n","d"," ","c","o","m","p","e","t","i","t","i","v","e"," ","l","a","n","d","s","c","a","p","e"," ","a","s","s","e","s","s","m","e","n","t","\n","-"," ","K","e","y"," ","b","e","n","e","f","i","t","s"," ","a","n","d"," ","i","m","p","l","e","m","e","n","t","a","t","i","o","n"," ","c","o","n","s","i","d","e","r","a","t","i","o","n","s","\n","-"," ","R","i","s","k"," ","a","n","a","l","y","s","i","s"," ","a","n","d"," ","m","i","t","i","g","a","t","i","o","n"," ","s","t","r","a","t","e","g","i","e","s","\n","-"," ","S","u","c","c","e","s","s"," ","m","e","t","r","i","c","s"," ","a","n","d"," ","p","e","r","f","o","r","m","a","n","c","e"," ","t","r","a","c","k","i","n","g">>
    ELSE
        <<"S","l","i","d","e"," ","1",":"," ","I","n","t","r","o","d","u","c","t","i","o","n"," ","t","o"," ">>
        \o t
        \o <<"\n","-"," ","C","o","r","e"," ","c","o","n","c","e","p","t"," ","o","v","e","r","v","i","e","w"," ","a","n","d"," ","b","a","s","i","c"," ","p","r","i","n","c","i","p","l","e","s","\n","-"," ","M","a","i","n"," ","a","p","p","l","i","c","a","t","i","o","n","s"," ","a","n","d"," ","u","s","e"," ","c","a","s","e","s","\n","-"," ","K","e","y"," ","b","e","n","e","f","i","t","s"," ","a","n","d"," ","a","d","v","a","n","t","a","g","e","s">>

\* minimal_text of api_generate_ppt (main.py:1056-1061), by content_depth
PptMinimalText(t, d) ==
    IF d = "comprehensive" THEN
        <<"S","l","i","d","e"," ","1",":"," ","E","x","e","c","u","t","i","v","e"," ","S","t","r","a","t","e","g","i","c"," ","O","v","e","r","v","i","e","w",":"," ">>
        \o t
        \o <<"\n","-"," ","C","o","m","p","r","e","h","e","n","s","i","v","e"," ","m","a","r","k","e","t"," ","a","n","a","l","y","s","i","s"," ","w","i","t","h"," ","c","u","r","r","e","n","t"," ","t","r","e","n","d","s"," ","a","n","d"," ","c","o","m","p","e","t","i","t","i","v","e"," ","l","a","n","d","s","c","a","p","e","\n","-"," ","S","t","r","a","t","e","g","i","c"," ","b","u","s","i","n","e","s","s"," ","c","a","s","e"," ","w","i","t","h"," ","R","O","I"," ","c","a","l","c","u","l","a","t","i","o","n"," ","a","n","d"," ","f","i","n","a","n","c","i","a","l"," ","p","r","o","j","e","c","t","i","o","n","s","\n","-"," ","I","m","p","l","e","m","e","n","t","a","t","i","o","n"," ","r","o","a","d","m","a","p"," ","d","e","t","a","i","l","i","n","g"," ","p","h","a","s","e","d"," ","a","p","p","r","o","a","c","h"," ","a","n","d"," ","r","e","s","o","u","r","c","e"," ","a","l","l","o","c","a","t","i","o","n","\n","-"," ","S","t","a","k","e","h","o","l","d","e","r"," ","i","m","p","a","c","t"," ","a","n","a","l","y","s","i","s"," ","c","o","v","e","r","i","n","g"," ","c","h","a","n","g","e"," ","m","a","n","a","g","e","m","e","n","t"," ","r","e","q","u","i","r","e","m","e","n","t","s","\n","-"," ","P","e","r","f","o","r","m","a","n","c","e"," ","m","e","a","s","u","r","e","m","e","n","t"," ","f","r","a","m","e","w","o","r","k"," ","d","e","f","i","n","i","n","g"," ","K","P","I","s"," ","a","n","d"," ","i","m","p","r","o","v","e","m","e","n","t"," ","p","r","o","c","e","s","s","e","s">>
    ELSE IF d = "detailed" THEN
        <<"S","l","i","d","e"," ","1",":"," ","C","o","m","p","r","e","h","e","n","s","i","v","e"," ">>
        \o t
        \o <<" ","A","n","a","l","y","s","i","s","\n","-"," ","D","e","t","a","i","l","e","d"," ","o","v","e","r","v","i","e","w"," ","w","i","t","h"," ","m","a","r","k","e","t"," ","c","o","n","t","e","x","t"," ","a","n","d"," ","c","u","r","r","e","n","t"," ","r","e","l","e","v","a","n","c","e","\n","-"," ","K","e","y"," ","i","n","d","u","s","t","r","y"," ","t","r","e","n","d","s"," ","a","n","a","l","y","s","i","s"," ","a","n","d"," ","e","m","e","r","g","i","n","g"," ","p","a","t","t","e","r","n","s","\n","-"," ","S","t","r","a","t","e","g","i","c"," ","i","m","p","o","r","t","a","n","c","e"," ","a","n","d"," ","b","u","s","i","n","e","s","s"," ","i","m","p","a","c","t"," ","c","o","n","s","i","d","e","r","a","t","i","o","n","s","\n","-"," ","I","m","p","l","e","m","e","n","t","a","t","i","o","n"," ","c","h","a","l","l","e","n","g","e","s"," ","a","n","d"," ","p","o","t","e","n","t","i","a","l"," ","s","o","l","u","t","i","o","n","s">>
    ELSE
        <<"S","l","i","d","e"," ","1",":"," ","I","n","t","r","o","d","u","c","t","i","o","n"," ","t","o"," ">>
        \o t
        \o <<"\n","-"," ","C","o","r","e"," ","c","o","n","c","e","p","t"," ","d","e","f","i","n","i","t","i","o","n"," ","a","n","d"," ","o","v","e","r","v","i","e","w","\n","-"," ","M","a","i","n"," ","p","u","r","p","o","s","e"," ","a","n","d"," ","b","a","s","i","c"," ","a","p","p","l","i","c","a","t","i","o","n","s","\n","-"," ","K","e","y"," ","b","e","n","e","f","i","t","s"," ","a","n","d"," ","i","m","p","o","r","t","a","n","c","e">>

\* "if not slides": the handler's last resort, parsed with payload.slides
MinimalFallbackSlides(content, minimal, d, n) ==
    IF content.slides = <<>> THEN ParseOutline(minimal, d, n) ELSE content.slides
MinimalFallbackSource(content) ==
    IF content.slides = <<>> THEN "minimal_fallback" ELSE content.source

\* GeneratePayload's defaults for style and background_color
DefaultStyle == "Blue-Professional"
DefaultBackground == "#FFFFFF"

\* the row of the table with this (topic, style, background_color, content_depth), if any
ExistingRows(table, h) ==
    {r \in table : /\ r.topic = h.topic /\ r.style = h.style
                   /\ r.background_color = h.background_color
                   /\ r.content_depth = h.content_depth}

\* save_presentation without the SELECT of an existing row: every call inserts
SavePresentation_AlwaysInsert(table, seq, h) ==
    [rows |-> table \cup
               {[id |-> seq + 1, topic |-> h.topic, slides |-> h.actual_slides,
                 style |-> h.style, background_color |-> h.background_color,
                 include_images |-> h.include_images, content_depth |-> h.content_depth,
                 downloaded |-> FALSE, download_count |-> 0]},
     last_id |-> seq + 1,
     id |-> seq + 1]

\* save_presentation with 'slides = ?' bound to history_data['slides'], the count requested
SavePresentation_StoresRequested(table, seq, h) ==
    IF ExistingRows(table, h) # {}
    THEN LET old == CHOOSE r \in ExistingRows(table, h) : TRUE
         IN  [rows |-> (table \ {old}) \cup
                        {[old EXCEPT !.slides = h.slides, !.include_images = h.include_images]},
              last_id |-> seq,
              id |-> old.id]
    ELSE [rows |-> table \cup
                    {[id |-> seq + 1, topic |-> h.topic, slides |-> h.slides,
                      style |-> h.style, background_color |-> h.background_color,
                      include_images |-> h.include_images, content_depth |-> h.content_depth,
                      downloaded |-> FALSE, download_count |-> 0]},
          last_id |-> seq + 1,
          id |-> seq + 1]

\* save_presentation(history_data): the table, the sequence and the id returned
SavePresentation(table, seq, h) ==
    IF ExistingRows(table, h) # {}
    THEN LET old == CHOOSE r \in ExistingRows(table, h) : TRUE
         IN  [rows |-> (table \ {old}) \cup
                        {[old EXCEPT !.slides = h.actual_slides, !.include_images = h.include_images]},
              last_id |-> seq,
              id |-> old.id]
    ELSE [rows |-> table \cup
                    {[id |-> seq + 1, topic |-> h.topic, slides |-> h.actual_slides,
                      style |-> h.style, background_color |-> h.background_color,
                      include_images |-> h.include_images, content_depth |-> h.content_depth,
                      downloaded |-> FALSE, download_count |-> 0]},
          last_id |-> seq + 1,
          id |-> seq + 1]

\* update_presentation_download with an UPDATE that has no WHERE clause
MarkDownloaded_AllRows(table, id) ==
    {[r EXCEPT !.downloaded = TRUE, !.download_count = @ + 1] : r \in table}

\* update_presentation_download with 'SET download_count = download_count + 1' alone
MarkDownloaded_CountOnly(table, id) ==
    {IF r.id = id THEN [r EXCEPT !.download_count = @ + 1] ELSE r : r \in table}

\* update_presentation_download(presentation_id): the table after the first UPDATE
MarkDownloaded(table, id) ==
    {IF r.id = id THEN [r EXCEPT !.downloaded = TRUE, !.download_count = @ + 1] ELSE r : r \in table}

\* delete_presentation(presentation_id): the table after the DELETE
DeletePresentation(table, id) == {r \in table : r.id # id}

\* the UPDATE of save_presentation: slides and include_images of the row with the id
UpdateRow(table, id, h) ==
    {IF r.id = id THEN [r EXCEPT !.slides = h.actual_slides, !.include_images = h.include_images]
     ELSE r : r \in table}

\* the INSERT of save_presentation: a new row with the next id of the sequence
InsertRow(table, seq, h) ==
    table \cup {[id |-> seq + 1, topic |-> h.topic, slides |-> h.actual_slides,
                 style |-> h.style, background_color |-> h.background_color,
                 include_images |-> h.include_images, content_depth |-> h.content_depth,
                 downloaded |-> FALSE, download_count |-> 0]}

\* the key columns of history_data or of a row
KeyOf(h) ==
    [topic |-> h.topic, style |-> h.style, background_color |-> h.background_color,
     content_depth |-> h.content_depth]

\* history_data of a handler
HistoryData(t, n, d, images, result) ==
    [topic |-> t, slides |-> n, actual_slides |-> Len(result), style |-> DefaultStyle,
     background_color |-> DefaultBackground, include_images |-> images, content_depth |-> d]

----------------------------------------------------------------------------
(* Inputs *)

\* the three content depths, and a content_depth string that is none of them
Depths == {"basic", "detailed", "comprehensive"}
AnyDepth == Depths \cup {"executive"}

\* "\n".join(lines)
JoinLines(lines) ==
    Concat([k \in 1..Len(lines) |-> IF k = 1 THEN lines[k] ELSE <<NL>> \o lines[k]])

\* the longest outline written, in lines
MaxLines == 5
\* the largest requested_slides passed to parse_outline
MaxRequested == 2

\* the line written at position i of an outline, by kind: a title line
\* "Slide i: Topic i", a bullet line "- item i", a bullet line too short to
\* keep "- no i", or a blank line
LineKinds == {"title", "bullet", "short", "blank"}
LineText(kind, i) ==
    CASE kind = "title" ->
            <<"S","l","i","d","e"," ">> \o Decimal(i) \o <<":"," ","T","o","p","i","c"," ">> \o Decimal(i)
      [] kind = "bullet" -> <<"-"," ","i","t","e","m"," ">> \o Decimal(i)
      [] kind = "short" -> <<"-"," ","n","o">> \o Decimal(i)
      [] OTHER -> <<>>

\* every outline of at most MaxLines lines
Outlines ==
    UNION {{[i \in 1..k |-> LineText(kinds[i], i)] : kinds \in [1..k -> LineKinds]} : k \in 0..MaxLines}


\* title lines "<marker><sep><X>": the marker in three spellings, zero to two
\* spaces after it, and a title X (raw as written, title as it reads trimmed)
TitleMarkers == {<<"S","l","i","d","e"," ","3",":">>, <<"S","L","I","D","E"," ","1","2",":">>, <<"s","l","i","d","e","7",":">>}
TitleSeps == {<<>>, <<SP>>, <<SP, SP>>}
TitleTexts ==
    {[raw |-> <<"M","a","r","k","e","t"," ","O","v","e","r","v","i","e","w">>, title |-> <<"M","a","r","k","e","t"," ","O","v","e","r","v","i","e","w">>],
     [raw |-> <<"A">>, title |-> <<"A">>],
     [raw |-> <<"C","o","s","t","s"," "," ">>, title |-> <<"C","o","s","t","s">>],
     [raw |-> <<>>, title |-> <<>>]}
MarkedTitleLines == {m \o sp \o x.raw : m \in TitleMarkers, sp \in TitleSeps, x \in TitleTexts}
\* a title line that holds two markers, "Slide 1: Slide 2: Plan"
DoubledMarkerLine == <<"S","l","i","d","e"," ","1",":"," ","S","l","i","d","e"," ","2",":"," ","P","l","a","n">>
\* title lines without a marker
PlainTitleLines == {<<"R","i","s","k","s">>, <<"S","l","i","d","e"," ","1"," ","S","u","m","m","a","r","y">>}

\* bullet candidate lines: '-' bullets, symbol bullets, a '-' with no space, short and unmarked lines
FirstBulletLine == <<"-"," ","f","i","r","s","t"," ","b","u","l","l","e","t">>
BulletLines ==
    {FirstBulletLine, <<"-"," "," "," ","s","e","c","o","n","d"," "," ","b","u","l","l","e","t">>, <<"U+2022"," ","M","a","r","k","e","t"," ","s","i","z","e">>, <<"*"," ","g","a","m","m","a">>, <<"U+00B7"," ","c","o","s","t","s">>, <<"-","n","o"," ","s","p","a","c","e">>, <<"-"," ","t","i","n","y">>, <<"p","l","a","i","n"," ","t","e","x","t"," ","l","i","n","e">>}

\* a bullet line of two letters four spaces apart, "- a    b"
SpacedBulletLine == <<"-"," ","a"," "," "," "," ","b">>

\* the most bullet candidate lines in a one-block outline
MaxBulletLines == 2

\* one-block outlines: every title line over one bullet, and the title "Risks"
\* over every sequence of at most MaxBulletLines bullet candidate lines
BlockOutlines ==
    {<<t, FirstBulletLine>> : t \in MarkedTitleLines \cup PlainTitleLines \cup {DoubledMarkerLine}}
    \cup {<<<<"R","i","s","k","s">>, SpacedBulletLine>>}
    \cup UNION {{<<<<"R","i","s","k","s">>>> \o bs : bs \in [1..k -> BulletLines]} : k \in 0..MaxBulletLines}


\* topics: two plain ones and one that holds a blank line
PlainTopics == {<<"A","I">>, <<"R","e","n","e","w","a","b","l","e"," ","E","n","e","r","g","y">>}
BlankLineTopic == <<"a",NL,NL,"b">>
Topics == PlainTopics \cup {BlankLineTopic}

\* the largest num_slides passed to generate_consistent_fallback
MaxFallbackSlides == 7

\* the largest payload.slides of a request (GeneratePayload does not validate it)
MaxSlides == 4
\* the most slides in a text Gemini returns
MaxAiSlides == 3

\* a structured outline of k slides: "Slide i: Topic i" over "- item j", a blank line between slides
AiOutline(k) ==
    JoinLines([i \in 1..(3 * k - 1) |->
                  LineText(IF i % 3 = 1 THEN "title" ELSE IF i % 3 = 2 THEN "bullet" ELSE "blank", i)])

\* response.text: empty, prose, prose that holds "Slide" and "-", and outlines
AiTexts ==
    {<<>>, <<"H","e","l","l","o"," ","t","h","e","r","e">>, <<"S","l","i","d","e"," ","d","e","c","k"," ","-"," ","n","o","n","e">>}
    \cup {AiOutline(k) : k \in 1..MaxAiSlides}

\* what the Gemini call does: no model configured, generate_content raises, or a response
GeminiOutcomes ==
    {[kind |-> "unconfigured", text |-> <<>>], [kind |-> "raises", text |-> <<>>]}
    \cup {[kind |-> "text", text |-> x] : x \in AiTexts}

\* what build_ppt does: it saves the deck, it fails and create_fallback_ppt
\* saves one, or both fail
BuildOutcomes == {"ok", "fallback", "fail"}

\* create_fallback_ppt(): the path of the single-slide deck, or HTTPException(500)
CreateFallbackPpt(build) ==
    IF build = "fail" THEN [path |-> "none", raised |-> TRUE]
    ELSE [path |-> "fallback", raised |-> FALSE]

\* build_ppt without its 'except Exception': a rendering failure propagates
BuildPpt_Propagates(build) ==
    IF build = "ok" THEN [path |-> "deck", raised |-> FALSE]
    ELSE [path |-> "none", raised |-> TRUE]

\* build_ppt(slides, ...): the path of the deck rendered, or what
\* create_fallback_ppt gives when anything in the try block raised
BuildPpt(build) ==
    IF build = "ok" THEN [path |-> "deck", raised |-> FALSE]
    ELSE CreateFallbackPpt(build)

\* the files a failed attempt can leave: NamedTemporaryFile(delete=False) makes
\* the file before prs.save writes it, in build_ppt and in create_fallback_ppt
LeftFiles(build) ==
    CASE build = "fallback" -> 0..1
      [] build = "fail" -> 0..2
      [] OTHER -> {0}

\* the topics of requests
RequestTopics == {<<"A","I">>, BlankLineTopic}

----------------------------------------------------------------------------
(* SpecParse: parse_outline applied to every outline, depth and count *)

\* no save_presentation call running
NoSessions == <<>>

\* call_real_huggingface not called
HfIdle ==
    [pc |-> "idle", api_key |-> FALSE, max_retries |-> 0, attempt |-> 0, requests |-> 0,
     seen |-> <<>>, text |-> <<>>, message |-> <<>>]

\* no request handled yet
NoRequest ==
    [endpoint |-> "none", include_images |-> FALSE,
     gemini |-> [kind |-> "unconfigured", text |-> <<>>], build |-> "none", left |-> 0,
     deck |-> "none", calls |-> 0, detail |-> <<>>]
NoContent == [slides |-> <<>>, source |-> "none"]
HandlersIdle ==
    /\ ai_text = <<>>
    /\ generated = NoContent
    /\ source = "none"
    /\ handed = <<>>
    /\ status = 0

\* no store function called yet
NoKey == [topic |-> <<>>, style |-> "", background_color |-> "", content_depth |-> ""]
NoCall == [op |-> "none", key |-> NoKey, id |-> 0, found |-> FALSE]

\* init_db on a new database: no presentations, total_downloads 0, no file written
StoreEmpty ==
    /\ rows = {}
    /\ last_id = 0
    /\ total_downloads = 0
    /\ files = 0
    /\ call = NoCall

InitParse ==
    /\ pc = "call"
    /\ input \in Outlines \cup BlockOutlines
    /\ text = JoinLines(input)
    /\ depth \in AnyDepth
    /\ requested \in 0..MaxRequested
    /\ slides = <<>>
    /\ topic = <<>>
    /\ request = NoRequest
    /\ HandlersIdle
    /\ hf = HfIdle
    /\ sessions = NoSessions
    /\ StoreEmpty

\* slides = parse_outline(text, content_depth, requested_slides)
Parse ==
    /\ pc = "call"
    /\ slides' = ParseOutline(text, depth, requested)
    /\ pc' = "done"
    /\ UNCHANGED <<input, text, depth, requested, topic, handler_vars, store_vars, sessions, hf>>

NextParse == Parse

SpecParse == InitParse /\ [][NextParse]_vars

\* init_db on the database earlier requests left (CREATE TABLE IF NOT EXISTS and
\* INSERT OR IGNORE keep what is there): a deck on "AI" at depth basic delivered
\* once, its file still on disk, and an outline on "AI" at depth detailed
StoreUsed ==
    /\ rows = {[id |-> 1, topic |-> <<"A","I">>, slides |-> 3, style |-> DefaultStyle,
                background_color |-> DefaultBackground, include_images |-> FALSE,
                content_depth |-> "basic", downloaded |-> TRUE, download_count |-> 1],
               [id |-> 2, topic |-> <<"A","I">>, slides |-> 4, style |-> DefaultStyle,
                background_color |-> DefaultBackground, include_images |-> FALSE,
                content_depth |-> "detailed", downloaded |-> FALSE, download_count |-> 0]}
    /\ last_id = 2
    /\ total_downloads = 1
    /\ files = 1
    /\ call = NoCall

----------------------------------------------------------------------------
(* SpecFallback: the fallback text of every topic, count and depth, parsed *)

InitFallback ==
    /\ pc = "call"
    /\ topic \in Topics
    /\ requested \in 0..MaxFallbackSlides
    /\ depth \in AnyDepth
    /\ input = <<>>
    /\ text = <<>>
    /\ slides = <<>>
    /\ request = NoRequest
    /\ HandlersIdle
    /\ hf = HfIdle
    /\ sessions = NoSessions
    /\ StoreEmpty

\* fallback_text = generate_consistent_fallback(topic, slides, content_depth)
\* parsed_slides = parse_outline(fallback_text, content_depth, slides)
Fallback ==
    /\ pc = "call"
    /\ text' = GenerateConsistentFallback(topic, requested, depth)
    /\ slides' = ParseOutline(text', depth, requested)
    /\ pc' = "done"
    /\ UNCHANGED <<input, depth, requested, topic, handler_vars, store_vars, sessions, hf>>

NextFallback == Fallback

SpecFallback == InitFallback /\ [][NextFallback]_vars

----------------------------------------------------------------------------
(* Spec: one request, of every payload, to /api/outline or to                 *)
(* /api/generate-ppt, on a new database or on a used one                    *)

Init ==
    /\ pc = "idle"
    /\ input = <<>>
    /\ text = <<>>
    /\ topic \in RequestTopics
    /\ requested \in 0..MaxSlides
    /\ depth \in AnyDepth
    /\ slides = <<>>
    /\ \E images \in BOOLEAN : request = [NoRequest EXCEPT !.include_images = images]
    /\ HandlersIdle
    /\ hf = HfIdle
    /\ sessions = NoSessions
    /\ StoreEmpty \/ StoreUsed

\* api_outline(payload)
ApiOutline ==
    /\ pc = "idle"
    /\ \E g \in GeminiOutcomes :
        /\ request' = [request EXCEPT !.endpoint = "outline", !.gemini = g,
                                       !.calls = GeminiCalls(g)]
        /\ ai_text' = CallGemini(g)
    /\ generated' = GeneratePresentationContent(topic, requested, depth, ai_text')
    /\ slides' = MinimalFallbackSlides(generated', OutlineMinimalText(topic, depth), depth, requested)
    /\ source' = MinimalFallbackSource(generated')
    /\ rows' = SavePresentation(rows, last_id,
                                HistoryData(topic, requested, depth, request.include_images, slides')).rows
    /\ last_id' = SavePresentation(rows, last_id,
                                   HistoryData(topic, requested, depth, request.include_images, slides')).last_id
    /\ handed' = <<>>
    /\ status' = 200
    /\ pc' = "done"
    /\ UNCHANGED <<input, text, topic, requested, depth, total_downloads, files, call, sessions, hf>>

\* api_generate_ppt(payload)
ApiGeneratePpt ==
    /\ pc = "idle"
    /\ \E g \in GeminiOutcomes :
        /\ ai_text' = CallGemini(g)
        /\ generated' = GeneratePresentationContent(topic, requested, depth, ai_text')
        /\ slides' = MinimalFallbackSlides(generated', PptMinimalText(topic, depth), depth, requested)
        /\ source' = MinimalFallbackSource(generated')
        /\ LET saved == SavePresentation(rows, last_id,
                                         HistoryData(topic, requested, depth, request.include_images, slides'))
               \* generate_image_pollinations is not defined: NameError at the first slide
               image_error == request.include_images /\ slides' # <<>>
           IN  \E build \in IF image_error THEN {"none"} ELSE BuildOutcomes : \E left \in LeftFiles(build) :
               LET built == ~image_error /\ ~BuildPpt(build).raised
               IN  /\ request' = [request EXCEPT !.endpoint = "generate-ppt", !.gemini = g,
                                                  !.calls = GeminiCalls(g),
                                                  !.build = build, !.left = left,
                                                  !.deck = IF built THEN BuildPpt(build).path ELSE "none"]
                   /\ handed' = IF image_error THEN <<>> ELSE <<slides'>>
                   /\ rows' = IF built THEN MarkDownloaded(saved.rows, saved.id) ELSE saved.rows
                   /\ last_id' = saved.last_id
                   /\ total_downloads' = IF built THEN total_downloads + 1 ELSE total_downloads
                   /\ files' = files + left + (IF built THEN 1 ELSE 0)
                   /\ status' = IF built THEN 200 ELSE 500
    /\ pc' = "done"
    /\ UNCHANGED <<input, text, topic, requested, depth, call, sessions, hf>>

Next == ApiOutline \/ ApiGeneratePpt

Spec == Init /\ [][Next]_vars

----------------------------------------------------------------------------
(* SpecDelivery: the request handled and its response sent *)

\* the response is sent: FileResponse(ppt_path, ..., background=None) runs no
\* task after the file is sent, and an error response has no file
SendResponse ==
    /\ pc = "done"
    /\ pc' = "sent"
    /\ UNCHANGED <<parser_vars, handler_vars, store_vars, sessions, hf>>

NextDelivery == ApiOutline \/ ApiGeneratePpt \/ SendResponse

SpecDelivery == Init /\ [][NextDelivery]_vars /\ WF_vars(SendResponse)

----------------------------------------------------------------------------
(* The Hugging Face revision, main_real_hf.py *)

\* {"basic": 3, "detailed": 4, "comprehensive": 5}.get(content_depth, 4)
HfMaxBullets(d) ==
    CASE d = "basic" -> 3
      [] d = "detailed" -> 4
      [] d = "comprehensive" -> 5
      [] OTHER -> 4

\* the title of a block: the marker-stripped first line, or "AI Generated
\* Slide" when that is empty or a single character
HfTitle(ln) ==
    IF Len(StripTitleMarker(ln)) < 2
    THEN <<"A","I"," ","G","e","n","e","r","a","t","e","d"," ","S","l","i","d","e">>
    ELSE StripTitleMarker(ln)

\* the bullets of a block: of every later line that starts with '-', what
\* follows the '-', stripped, when longer than 3 characters
HfBullets(lines) ==
    LET rest == Tail(lines)
        Dashed(ln) == ln # <<>> /\ ln[1] = "-" /\ Len(Strip(Tail(ln))) > 3
        kept == SelectSeq(rest, Dashed)
    IN  [k \in 1..Len(kept) |-> Strip(Tail(kept[k]))]

\* the slide of a block with lines: title and bullets[:max_bullets]
HfSlide(lines, d) ==
    [title |-> HfTitle(lines[1]),
     bullets |-> SubSeq(HfBullets(lines), 1,
                        IF HfMaxBullets(d) < Len(HfBullets(lines)) THEN HfMaxBullets(d)
                        ELSE Len(HfBullets(lines)))]

\* the slide parse_outline returns when no block gave one
HfDefaultSlide ==
    [title |-> <<"A","I"," ","P","r","e","s","e","n","t","a","t","i","o","n">>,
     bullets |-> <<<<"G","e","n","e","r","a","t","e","d"," ","w","i","t","h"," ","R","e","a","l"," ","A","I">>, <<"P","r","o","f","e","s","s","i","o","n","a","l"," ","C","o","n","t","e","n","t">>>>]

\* parse_outline(text, content_depth) of main_real_hf.py
HfParseOutline(t, d) ==
    LET blocks == SplitBlocks(Strip(t))
        HasLines(b) == BlockLines(b) # <<>>
        kept == SelectSeq(blocks, HasLines)
    IN  IF kept = <<>> THEN <<HfDefaultSlide>>
        ELSE [k \in 1..Len(kept) |-> HfSlide(BlockLines(kept[k]), d)]

\* call_real_huggingface returns generated text only when it is longer than this
HfMinTextLen == 20

\* generated_text as call_real_huggingface extracts it from the JSON of a
\* status-200 response: result[0].get('generated_text', '') of a non-empty list,
\* result.get('generated_text', str(result)) of a dict, str(result) of anything else
HfGeneratedText(body) ==
    CASE body.shape = "list" -> body.generated_text
      [] body.shape = "dict" -> body.generated_text
      [] OTHER -> body.repr

\* the exception an attempt ends with when it is the last one
HfLastAttemptError(r) ==
    CASE r.kind = "status" -> <<"Real AI API failed: ", r.status>>
      [] r.kind = "timeout" -> <<"Real AI API timeout after retries">>
      [] r.kind = "exception" -> <<r.message>>
      [] OTHER -> <<"All real AI API attempts failed">>

\* HfAttempt with 'if generated_text:' as the test of the text: any text is returned
HfAttempt_AnyText(c, r) ==
    LET last == c.attempt = c.max_retries - 1
        next == [c EXCEPT !.attempt = @ + 1, !.requests = @ + 1, !.seen = Append(@, r)]
    IN  IF r.kind = "ok" /\ Len(HfGeneratedText(r.body)) > 0
        THEN [next EXCEPT !.pc = "returned", !.text = <<HfGeneratedText(r.body)>>]
        ELSE IF last
        THEN [next EXCEPT !.pc = "raised", !.message = HfLastAttemptError(r)]
        ELSE next

\* one pass of the loop 'for attempt in range(max_retries)': one requests.post
\* with the response r.  A response of status 200 with text longer than
\* HfMinTextLen is returned; a short text and status 503 continue the loop; any
\* other status, a timeout and any other exception (a refused connection, a
\* body that is not the JSON expected) continue unless the attempt is the last,
\* in which case they raise; the loop running out raises too
HfAttempt(c, r) ==
    LET last == c.attempt = c.max_retries - 1
        next == [c EXCEPT !.attempt = @ + 1, !.requests = @ + 1, !.seen = Append(@, r)]
    IN  IF r.kind = "ok" /\ Len(HfGeneratedText(r.body)) > HfMinTextLen
        THEN [next EXCEPT !.pc = "returned", !.text = <<HfGeneratedText(r.body)>>]
        ELSE IF last
        THEN [next EXCEPT !.pc = "raised", !.message = HfLastAttemptError(r)]
        ELSE next

\* call_real_huggingface up to its loop: without an API key it raises at once
HfEnter(api_key, max_retries) ==
    IF ~api_key
    THEN [HfIdle EXCEPT !.pc = "raised", !.max_retries = max_retries,
                        !.message = <<"Hugging Face API key not configured">>]
    ELSE IF max_retries <= 0
    THEN [HfIdle EXCEPT !.pc = "raised", !.api_key = TRUE, !.max_retries = max_retries,
                        !.message = <<"All real AI API attempts failed">>]
    ELSE [HfIdle EXCEPT !.pc = "loop", !.api_key = TRUE, !.max_retries = max_retries]

\* call_real_huggingface(prompt, max_retries) when the requests meet the
\* responses of the run, in order: the call's last state
RECURSIVE HfRun(_, _)
HfRun(c, run) ==
    IF c.pc # "loop" \/ run = <<>> THEN c
    ELSE HfRun(HfAttempt(c, Head(run)), Tail(run))
CallRealHuggingface(api_key, max_retries, run) == HfRun(HfEnter(api_key, max_retries), run)

\* max_retries of the handlers' calls (the parameter's default)
DefaultRetries == 3

\* what a request to the provider meets: status 200 with a JSON body, status
\* 503, another status, a timeout, another exception
HfOk(body) == [kind |-> "ok", body |-> body, status |-> 200, message |-> ""]
HfLoading == [kind |-> "loading", body |-> [shape |-> "none"], status |-> 503, message |-> ""]
HfTimeout == [kind |-> "timeout", body |-> [shape |-> "none"], status |-> 0, message |-> ""]
HfRefused ==
    [kind |-> "exception", body |-> [shape |-> "none"], status |-> 0, message |-> "Connection refused"]
\* status 200 with a body that is not JSON: response.json() raises
HfNotJson ==
    [kind |-> "exception", body |-> [shape |-> "none"], status |-> 200, message |-> "Expecting value"]
HfStatus(code) == [kind |-> "status", body |-> [shape |-> "none"], status |-> code, message |-> ""]
HfListBody(t) == [shape |-> "list", generated_text |-> t, repr |-> <<>>]

\* the texts the Hugging Face call generates: the one-block outlines, an outline
\* of MaxAiSlides slides, and blank text
HfInputs ==
    BlockOutlines \cup {<<AiOutline(MaxAiSlides)>>, <<[i \in 1..(HfMinTextLen + 1) |-> SP]>>}

----------------------------------------------------------------------------
(* SpecHfCall: one call of call_real_huggingface, request by request.  Each   *)
(* pass of the loop ends: requests.post has a timeout and the sleeps are      *)
(* finite, which is the weak fairness of HfRequest.                           *)

\* the largest max_retries of a call
MaxRetries == 3

\* the responses a request meets
HfResponses ==
    {HfOk(HfListBody(AiOutline(1))),
     HfOk(HfListBody(<<"H","i">>)),
     HfOk([shape |-> "dict", generated_text |-> AiOutline(1), repr |-> <<>>]),
     HfOk([shape |-> "other", generated_text |-> <<>>, repr |-> <<"{","'","e","r","r","o","r","'",":"," ","'","M","o","d","e","l"," ","t","o","o"," ","b","u","s","y","'","}">>]),
     HfOk([shape |-> "other", generated_text |-> <<>>, repr |-> <<"[","]">>]),
     HfLoading, HfTimeout, HfRefused, HfNotJson, HfStatus(500), HfStatus(401)}

InitHfCall ==
    /\ pc = "idle"
    /\ input = <<>>
    /\ text = <<>>
    /\ depth = "detailed"
    /\ requested = 0
    /\ slides = <<>>
    /\ topic = <<>>
    /\ request = NoRequest
    /\ HandlersIdle
    /\ hf = HfIdle
    /\ sessions = NoSessions
    /\ StoreEmpty

\* call_real_huggingface(prompt, max_retries) is entered
HfCallEnter ==
    /\ hf.pc = "idle"
    /\ \E api_key \in BOOLEAN, max_retries \in 0..MaxRetries : hf' = HfEnter(api_key, max_retries)
    /\ UNCHANGED <<pc, parser_vars, handler_vars, store_vars, sessions>>

\* one pass of its loop
HfRequest ==
    /\ hf.pc = "loop"
    /\ \E r \in HfResponses : hf' = HfAttempt(hf, r)
    /\ UNCHANGED <<pc, parser_vars, handler_vars, store_vars, sessions>>

NextHfCall == HfCallEnter \/ HfRequest

SpecHfCall == InitHfCall /\ [][NextHfCall]_vars /\ WF_vars(HfRequest)

----------------------------------------------------------------------------
(* SpecHf: one request to /api/generate-ppt of main_real_hf.py *)

\* the runs of responses the handler's call meets when the provider generates
\* the text t: the text at the first, second or third request, or no text
HfHandlerRuns(t) ==
    {[k \in 1..DefaultRetries |-> HfOk(HfListBody(t))],
     [k \in 1..DefaultRetries |-> IF k = 1 THEN HfLoading ELSE HfOk(HfListBody(t))],
     [k \in 1..DefaultRetries |-> IF k = 1 THEN HfTimeout ELSE IF k = 2 THEN HfStatus(500)
                                   ELSE HfOk(HfListBody(t))],
     [k \in 1..DefaultRetries |-> IF k = 1 THEN HfStatus(500) ELSE IF k = 2 THEN HfTimeout
                                   ELSE HfLoading]}
    \cup {[k \in 1..DefaultRetries |-> r] : r \in {HfLoading, HfTimeout, HfRefused, HfStatus(500)}}

\* save_presentation(history_data) of main_real_hf.py: always an INSERT
HfSavePresentation(table, seq, t, n, d) ==
    table \cup {[id |-> seq + 1, topic |-> t, slides |-> n, style |-> DefaultStyle,
                 background_color |-> DefaultBackground, content_depth |-> d]}

\* the handler with save_presentation called before call_real_huggingface
HfSaveReached_BeforeCall(c) == TRUE

\* the handler reaches parse_outline, save_presentation and build_ppt only when
\* call_real_huggingface returned
HfSaveReached(c) == c.pc = "returned"

\* detail of the handler's HTTPException: f"Real AI Error: {str(e)}"
HfErrorDetail(message) == <<"Real AI Error: ">> \o message

\* init_db of main_real_hf.py on the database an earlier request left: one row,
\* its deck on disk
HfStoreUsed ==
    /\ rows = {[id |-> 1, topic |-> <<"A","I">>, slides |-> 5, style |-> DefaultStyle,
                background_color |-> DefaultBackground, content_depth |-> "detailed"]}
    /\ last_id = 1
    /\ total_downloads = 0
    /\ files = 1
    /\ call = NoCall

InitHf ==
    /\ pc = "idle"
    /\ input \in HfInputs
    /\ text = JoinLines(input)
    /\ depth \in AnyDepth
    /\ requested = 5
    /\ slides = <<>>
    /\ topic = <<"A","I">>
    /\ request = NoRequest
    /\ HandlersIdle
    /\ hf = HfIdle
    /\ sessions = NoSessions
    /\ StoreEmpty \/ HfStoreUsed

\* api_generate_ppt(payload) of main_real_hf.py: call_real_huggingface raises or
\* returns the text; then parse_outline, save_presentation and build_ppt, which
\* saves the deck or raises; every exception is answered with status 500
HfApiGeneratePpt ==
    /\ pc = "idle"
    /\ \E api_key \in BOOLEAN, run \in HfHandlerRuns(text) :
        hf' = CallRealHuggingface(api_key, DefaultRetries, run)
    /\ ai_text' = hf'.text
    /\ slides' = IF hf'.pc = "returned" THEN HfParseOutline(hf'.text[1], depth) ELSE <<>>
    /\ handed' = IF hf'.pc = "returned" THEN <<slides'>> ELSE <<>>
    /\ rows' = IF HfSaveReached(hf') THEN HfSavePresentation(rows, last_id, topic, requested, depth)
               ELSE rows
    /\ last_id' = IF HfSaveReached(hf') THEN last_id + 1 ELSE last_id
    /\ \E build \in IF hf'.pc = "returned" THEN {"ok", "fail"} ELSE {"none"} :
        /\ request' = [request EXCEPT
                !.endpoint = "hf-generate-ppt", !.build = build,
                !.deck = IF build = "ok" THEN "deck" ELSE "none",
                !.detail = IF build = "ok" THEN <<>>
                           ELSE IF build = "fail" THEN HfErrorDetail(<<"Permission denied">>)
                           ELSE HfErrorDetail(hf'.message)]
        /\ files' = IF build = "ok" THEN files + 1 ELSE files
        /\ status' = IF build = "ok" THEN 200 ELSE 500
    /\ pc' = "done"
    /\ UNCHANGED <<input, text, topic, requested, depth, generated, source, total_downloads, call, sessions>>

NextHf == HfApiGeneratePpt

SpecHf == InitHf /\ [][NextHf]_vars

----------------------------------------------------------------------------
(* SpecStore: the store functions called in any order on a new database *)

\* the most rows ever inserted, and the most downloads counted
MaxInserts == 2
MaxDownloads == 1

\* history_data of the calls: three keys that differ in topic, in style or in
\* content_depth, each with two slide counts and either include_images
HistoryKeys ==
    {[topic |-> <<"A","I">>, style |-> DefaultStyle, background_color |-> DefaultBackground, content_depth |-> "basic"],
     [topic |-> <<"A","I">>, style |-> DefaultStyle, background_color |-> DefaultBackground, content_depth |-> "detailed"],
     [topic |-> <<"A","I">>, style |-> "Dark-Modern", background_color |-> DefaultBackground, content_depth |-> "basic"]}
HistoryInputs ==
    {[topic |-> k.topic, slides |-> 6, actual_slides |-> n, style |-> k.style,
      background_color |-> k.background_color, include_images |-> images,
      content_depth |-> k.content_depth] : k \in HistoryKeys, n \in {3, 6}, images \in BOOLEAN}

InitStore ==
    /\ pc = "idle"
    /\ input = <<>>
    /\ text = <<>>
    /\ depth = "detailed"
    /\ requested = 0
    /\ slides = <<>>
    /\ topic = <<>>
    /\ request = NoRequest
    /\ HandlersIdle
    /\ hf = HfIdle
    /\ sessions = NoSessions
    /\ StoreEmpty

\* save_presentation(history_data)
SaveCall ==
    /\ \E h \in HistoryInputs :
        /\ ExistingRows(rows, h) # {} \/ last_id < MaxInserts
        /\ rows' = SavePresentation(rows, last_id, h).rows
        /\ last_id' = SavePresentation(rows, last_id, h).last_id
        /\ call' = [op |-> "save", key |-> KeyOf(h), id |-> SavePresentation(rows, last_id, h).id,
                    found |-> ExistingRows(rows, h) # {}]
    /\ UNCHANGED <<pc, parser_vars, handler_vars, total_downloads, files, sessions, hf>>

\* update_presentation_download(presentation_id)
DownloadCall ==
    /\ total_downloads < MaxDownloads
    /\ \E id \in 1..MaxInserts :
        /\ rows' = MarkDownloaded(rows, id)
        /\ call' = [op |-> "download", key |-> NoKey, id |-> id, found |-> \E r \in rows : r.id = id]
    /\ total_downloads' = total_downloads + 1
    /\ UNCHANGED <<pc, parser_vars, handler_vars, last_id, files, sessions, hf>>

\* delete_presentation(presentation_id)
DeleteCall ==
    /\ \E id \in 1..MaxInserts :
        /\ rows' = DeletePresentation(rows, id)
        /\ call' = [op |-> "delete", key |-> NoKey, id |-> id, found |-> \E r \in rows : r.id = id]
    /\ UNCHANGED <<pc, parser_vars, handler_vars, last_id, total_downloads, files, sessions, hf>>

\* clear_all_presentations()
ClearCall ==
    /\ rows' = {}
    /\ total_downloads' = 0
    /\ call' = [op |-> "clear", key |-> NoKey, id |-> 0, found |-> TRUE]
    /\ UNCHANGED <<pc, parser_vars, handler_vars, last_id, files, sessions, hf>>

NextStore == SaveCall \/ DownloadCall \/ DeleteCall \/ ClearCall

SpecStore == InitStore /\ [][NextStore]_vars

----------------------------------------------------------------------------
(* SpecHistory: the handlers of DELETE /api/history/{presentation_id} and     *)
(* DELETE /api/history, on the databases that saves, downloads and deletes    *)
(* leave                                                                      *)

\* three rows saved on "AI", one at each depth, the first delivered once
SavedRows ==
    {[id |-> k, topic |-> <<"A","I">>, slides |-> 3 + k, style |-> DefaultStyle,
      background_color |-> DefaultBackground, include_images |-> FALSE,
      content_depth |-> IF k = 1 THEN "basic" ELSE IF k = 2 THEN "detailed" ELSE "comprehensive",
      downloaded |-> k = 1, download_count |-> IF k = 1 THEN 1 ELSE 0] : k \in 1..3}

\* any of the three rows deleted since; a download of a deleted row stays counted
InitHistory ==
    /\ pc = "idle"
    /\ input = <<>>
    /\ text = <<>>
    /\ depth = "detailed"
    /\ requested = 0
    /\ slides = <<>>
    /\ topic = <<>>
    /\ request = NoRequest
    /\ HandlersIdle
    /\ hf = HfIdle
    /\ sessions = NoSessions
    /\ rows \in SUBSET SavedRows
    /\ last_id = Cardinality(SavedRows)
    /\ total_downloads \in 1..2
    /\ files = 1
    /\ call = NoCall

\* str(e) of the HTTPException(404) that delete_history_item raises: the status
\* and the detail, or nothing (Starlette gave HTTPException a __str__ only in
\* later releases)
NotFoundTexts == {<<"404: Presentation not found">>, <<"">>}

\* delete_history_item(presentation_id), the handler of DELETE /api/history/{id}:
\* the HTTPException(404) it raises when no row was deleted is raised inside its
\* try and caught by its 'except Exception', which answers 500 with str(e)
DeleteHistoryItem ==
    /\ \E id \in 1..(last_id + 1) :
        /\ rows' = DeletePresentation(rows, id)
        /\ call' = [op |-> "delete_history_item", key |-> NoKey, id |-> id,
                    found |-> \E r \in rows : r.id = id]
        /\ status' = IF rows' # rows THEN 200 ELSE 500
        /\ \E e \in NotFoundTexts :
            request' = [request EXCEPT !.endpoint = "delete-history",
                                       !.detail = IF rows' # rows THEN <<>> ELSE e]
    /\ UNCHANGED <<pc, parser_vars, ai_text, generated, source, handed, last_id, total_downloads,
                   files, sessions, hf>>

\* clear_history(), the handler of DELETE /api/history
ClearHistory ==
    /\ rows' = {}
    /\ total_downloads' = 0
    /\ call' = [op |-> "clear_history", key |-> NoKey, id |-> 0, found |-> TRUE]
    /\ status' = 200
    /\ request' = [request EXCEPT !.endpoint = "clear-history", !.detail = <<>>]
    /\ UNCHANGED <<pc, parser_vars, ai_text, generated, source, handed, last_id, files, sessions, hf>>

NextHistory == DeleteHistoryItem \/ ClearHistory

SpecHistory == InitHistory /\ [][NextHistory]_vars

----------------------------------------------------------------------------
(* SpecConcurrentSave: two requests in save_presentation at once.  The       *)
(* handlers are plain def functions, which the server runs on worker threads; *)
(* each call opens its own sqlite3 connection.  The SELECT reads the committed *)
(* table; the INSERT or UPDATE opens the transaction and takes the write lock, *)
(* waiting while another connection holds it; commit() publishes the write.   *)

\* the two requests
Savers == {1, 2}

\* history_data of the two calls
SaverInputs == {h \in HistoryInputs : ~h.include_images}

InitConcurrentSave ==
    /\ pc = "idle"
    /\ input = <<>>
    /\ text = <<>>
    /\ depth = "detailed"
    /\ requested = 0
    /\ slides = <<>>
    /\ topic = <<>>
    /\ request = NoRequest
    /\ HandlersIdle
    /\ hf = HfIdle
    /\ StoreEmpty \/ StoreUsed
    /\ \E h1 \in SaverInputs, h2 \in SaverInputs :
        sessions = [p \in Savers |->
                     [pc |-> "start", h |-> IF p = 1 THEN h1 ELSE h2, existing |-> <<>>, id |-> 0,
                      pending |-> {}]]

\* cursor.execute(SELECT id ...); existing = cursor.fetchone()
SaveSelect(p) ==
    /\ sessions[p].pc = "start"
    /\ sessions' = [sessions EXCEPT
            ![p].pc = "selected",
            ![p].existing = IF ExistingRows(rows, sessions[p].h) = {} THEN <<>>
                            ELSE <<(CHOOSE r \in ExistingRows(rows, sessions[p].h) : TRUE).id>>]
    /\ UNCHANGED <<pc, parser_vars, handler_vars, store_vars, hf>>

\* cursor.execute(UPDATE ... WHERE id = ?) when a row was found, else
\* cursor.execute(INSERT ...), which raises sqlite3.IntegrityError when the
\* table holds a row of the key by now (UNIQUE constraint); the statement waits
\* for the write lock of another connection
SaveWrite(p) ==
    /\ sessions[p].pc = "selected"
    /\ \A q \in Savers : sessions[q].pc # "written"
    /\ sessions' =
         IF sessions[p].existing # <<>>
         THEN [sessions EXCEPT ![p].pc = "written", ![p].id = sessions[p].existing[1],
                               ![p].pending = UpdateRow(rows, sessions[p].existing[1], sessions[p].h)]
         ELSE IF ExistingRows(rows, sessions[p].h) # {}
         THEN [sessions EXCEPT ![p].pc = "raised"]
         ELSE [sessions EXCEPT ![p].pc = "written", ![p].id = last_id + 1,
                               ![p].pending = InsertRow(rows, last_id, sessions[p].h)]
    /\ UNCHANGED <<pc, parser_vars, handler_vars, store_vars, hf>>

\* conn.commit(); conn.close(); return presentation_id
SaveCommit(p) ==
    /\ sessions[p].pc = "written"
    /\ rows' = sessions[p].pending
    /\ last_id' = IF sessions[p].existing = <<>> THEN sessions[p].id ELSE last_id
    /\ sessions' = [sessions EXCEPT ![p].pc = "done", ![p].pending = {}]
    /\ UNCHANGED <<pc, parser_vars, handler_vars, total_downloads, files, call, hf>>

NextConcurrentSave == \E p \in Savers : SaveSelect(p) \/ SaveWrite(p) \/ SaveCommit(p)

SpecConcurrentSave == InitConcurrentSave /\ [][NextConcurrentSave]_vars

----------------------------------------------------------------------------
(* Reading an outline as the specification reads it, line by line.  These    *)
(* definitions do not use the parser's: they state what the claims expect.  *)

\* a line that holds nothing but spaces
BlankLine(ln) == \A i \in 1..Len(ln) : ln[i] = SP

\* line i of the outline starts a block: it is not blank and follows a blank line or nothing
StartsBlock(lines, i) == ~BlankLine(lines[i]) /\ (i = 1 \/ BlankLine(lines[i - 1]))

\* line i of the outline is a bullet candidate: a non-blank line that follows a non-blank line
BulletCandidate(lines, i) == i > 1 /\ ~BlankLine(lines[i]) /\ ~BlankLine(lines[i - 1])

\* the line that starts the block line i lies in
BlockStartOf(lines, i) ==
    CHOOSE j \in 1..i : StartsBlock(lines, j) /\ \A k \in j..i : ~BlankLine(lines[k])

\* the lines i of the outline that were written as "- item i", and the bullet text "item i"
ItemLine(lines, i) == lines[i] = <<"-"," ","i","t","e","m"," ">> \o Decimal(i)
ItemText(i) == <<"i","t","e","m"," ">> \o Decimal(i)

\* the number of characters of a candidate line that follow its "- " marker (dash
\* and spaces), or of the whole line when it has no such marker
RECURSIVE MarkerLen(_, _)
MarkerLen(ln, i) == IF i <= Len(ln) /\ ln[i] = SP THEN MarkerLen(ln, i + 1) ELSE i - 1
BulletTextLen(ln) ==
    IF Len(ln) >= 2 /\ ln[1] = "-" /\ ln[2] = SP THEN Len(ln) - MarkerLen(ln, 2) ELSE Len(ln)

\* the bullet count the specification gives each depth
ExpectedBullets(d) == IF d = "basic" THEN 3 ELSE IF d = "detailed" THEN 4 ELSE 5

----------------------------------------------------------------------------
(* Claims about parse_outline, checked under SpecParse *)

\* C1: every slide parse_outline returns has exactly targetBulletCount(depth)
\* bullets: 3 for basic, 4 for detailed, 5 for comprehensive.
C1_ExactBulletCount ==
    (pc = "done" /\ depth \in Depths) =>
        \A i \in 1..Len(slides) : Len(slides[i].bullets) = ExpectedBullets(depth)

\* C1 witness: a block of four kept bullets parsed at basic depth gives a slide of the first three
C1_Witness ==
    /\ pc = "done" /\ depth = "basic" /\ Len(input) = 5
    /\ \A i \in 2..5 : ItemLine(input, i)
    /\ Len(slides) = 1
    /\ slides[1].bullets = <<ItemText(2), ItemText(3), ItemText(4)>>

\* C5: parse_outline never returns more than requestedSlideCount slides.
C5_AtMostRequested == pc = "done" => Len(slides) <= requested

\* C5 witness: two blocks that each make a slide, one slide requested, one returned
C5_Witness ==
    /\ pc = "done" /\ requested = 1 /\ Len(input) = 5
    /\ StartsBlock(input, 1) /\ ItemLine(input, 2) /\ StartsBlock(input, 4) /\ ItemLine(input, 5)
    /\ Len(slides) = 1

\* the outline has no block that can be accepted: every bullet candidate line
\* has at most 5 characters after its marker
NoAcceptableBlock(lines) ==
    \A i \in 1..Len(lines) : BulletCandidate(lines, i) => BulletTextLen(lines[i]) <= 5

\* C6: parse_outline returns the empty sequence for empty or whitespace-only
\* text and for text none of whose blocks is accepted, at every depth and count
\* (the operator is total: no input leaves the result undefined).
C6_EmptyResult ==
    (pc = "done" /\ ((\A i \in 1..Len(text) : text[i] \in {SP, NL}) \/ NoAcceptableBlock(input)))
        => slides = <<>>

\* C6 witness: a title over bullet lines that are all too short, with slides requested
C6_Witness ==
    /\ pc = "done" /\ requested >= 1 /\ Len(input) >= 3
    /\ StartsBlock(input, 1)
    /\ \A i \in 2..Len(input) : BulletCandidate(input, i)
    /\ NoAcceptableBlock(input)
    /\ slides = <<>>

\* the outline is one block: it has no blank line
OneBlock(lines) == Len(lines) >= 1 /\ \A i \in 1..Len(lines) : ~BlankLine(lines[i])

\* the positions after the title, in order, of the lines written "- item i"
ItemLines(lines) ==
    LET IsItem(i) == i >= 2 /\ ItemLine(lines, i)
    IN  SelectSeq([i \in 1..Len(lines) |-> i], IsItem)

\* "Additional strategic consideration for " and a lowercased title, as the specification words it
Placeholder(lowered) == <<"A","d","d","i","t","i","o","n","a","l"," ","s","t","r","a","t","e","g","i","c"," ","c","o","n","s","i","d","e","r","a","t","i","o","n"," ","f","o","r"," ">> \o lowered

\* C7: a block with k accepted bullets, 1 <= k < targetBulletCount(depth), gives
\* a slide of exactly targetBulletCount(depth) bullets: the block's k bullets in
\* order, then "Additional strategic consideration for <lowercased title>"; the
\* title "Risks" over two dash bullets gives four bullets at detailed depth, the
\* last two synthetic.
C7_Padding ==
    (pc = "done" /\ depth \in Depths /\ requested >= 1 /\ OneBlock(input)) =>
        /\ LET items == ItemLines(input)
               k == Len(items)
           IN  ( /\ input[1] = <<"S","l","i","d","e"," ","1",":"," ","T","o","p","i","c"," ","1">>
                 /\ 1 <= k /\ k < ExpectedBullets(depth)
                 /\ \A i \in 2..Len(input) : ItemLine(input, i) \/ BulletTextLen(input[i]) <= 5 )
               => /\ Len(slides) = 1
                  /\ slides[1].bullets =
                        [j \in 1..ExpectedBullets(depth) |->
                            IF j <= k THEN ItemText(items[j]) ELSE Placeholder(<<"t","o","p","i","c"," ","1">>)]
        /\ (input = <<<<"R","i","s","k","s">>, <<"-"," ","f","i","r","s","t"," ","b","u","l","l","e","t">>, <<"-"," "," "," ","s","e","c","o","n","d"," "," ","b","u","l","l","e","t">>>> /\ depth = "detailed")
               => /\ Len(slides) = 1
                  /\ slides[1].bullets = <<<<"f","i","r","s","t"," ","b","u","l","l","e","t">>, <<"s","e","c","o","n","d"," ","b","u","l","l","e","t">>, Placeholder(<<"r","i","s","k","s">>), Placeholder(<<"r","i","s","k","s">>)>>

\* C7 witness: the title "Risks" over two dash bullets at detailed depth, padded to four
C7_Witness ==
    /\ pc = "done" /\ depth = "detailed" /\ requested >= 1
    /\ input = <<<<"R","i","s","k","s">>, <<"-"," ","f","i","r","s","t"," ","b","u","l","l","e","t">>, <<"-"," "," "," ","s","e","c","o","n","d"," "," ","b","u","l","l","e","t">>>>
    /\ Len(slides) = 1 /\ Len(slides[1].bullets) = 4
    /\ slides[1].bullets[4] = Placeholder(<<"r","i","s","k","s">>)

\* line i lies in a block none of whose bullet candidate lines has more than
\* 5 characters after its marker
InShortBlock(lines, i) ==
    /\ ~BlankLine(lines[i])
    /\ LET j == BlockStartOf(lines, i)
       IN  \A k \in (j + 1)..Len(lines) :
               (\A m \in j..k : ~BlankLine(lines[m])) => BulletTextLen(lines[k]) <= 5

\* the outline with the lines of those blocks taken out
WithoutShortBlocks(lines) ==
    LET Keep(i) == ~InShortBlock(lines, i)
        at == SelectSeq([i \in 1..Len(lines) |-> i], Keep)
    IN  [k \in 1..Len(at) |-> lines[at[k]]]

\* C9: a block that has a title line and no bullet line longer than 5
\* characters is discarded: it adds no slide and does not count toward
\* requestedSlideCount, so the result is that of the outline without such blocks.
C9_ShortBlockDiscarded ==
    pc = "done" => slides = ParseOutline(JoinLines(WithoutShortBlocks(input)), depth, requested)

\* C9 witness: a block of short bullets before a block that makes a slide, one
\* slide requested: the slide returned is the second block's
C9_Witness ==
    /\ pc = "done" /\ requested = 1 /\ Len(input) = 5
    /\ StartsBlock(input, 1) /\ BulletCandidate(input, 2) /\ InShortBlock(input, 1)
    /\ StartsBlock(input, 4) /\ ItemLine(input, 5)
    /\ Len(slides) = 1
    /\ slides[1].bullets[1] = ItemText(5)

\* the outline is the title line "<marker><sep><X>" over one kept bullet
MarkedTitleOutline(lines, m, sp, x) == lines = <<m \o sp \o x.raw, FirstBulletLine>>

\* C10 as stated: every block whose title line has the form "Slide <digits>: X"
\* ("Slide" in any letter case) gets the title X with surrounding whitespace removed.
C10_TitleIsX ==
    (pc = "done" /\ requested >= 1) =>
        \A m \in TitleMarkers, sp \in TitleSeps, x \in TitleTexts :
            MarkedTitleOutline(input, m, sp, x) =>
                Len(slides) = 1 /\ slides[1].title = x.title

\* C10 amended: the same for every X that is not empty after trimming; for an
\* empty X the marker's own ':' is what the looser extraction leaves as the title.
C10_TitleIsNonEmptyX ==
    (pc = "done" /\ requested >= 1) =>
        \A m \in TitleMarkers, sp \in TitleSeps, x \in TitleTexts :
            MarkedTitleOutline(input, m, sp, x) =>
                /\ Len(slides) = 1
                /\ x.title # <<>> => slides[1].title = x.title
                /\ x.title = <<>> => slides[1].title = <<":">>

\* C10 witness: "Slide 3: Market Overview" parsed to the title "Market Overview"
C10_Witness ==
    /\ pc = "done" /\ requested >= 1
    /\ input = <<<<"S","l","i","d","e"," ","3",":"," ","M","a","r","k","e","t"," ","O","v","e","r","v","i","e","w">>, FirstBulletLine>>
    /\ Len(slides) = 1
    /\ slides[1].title = <<"M","a","r","k","e","t"," ","O","v","e","r","v","i","e","w">>

\* the line with a leading bullet symbol replaced by "-"
DashForm(ln) == IF ln # <<>> /\ ln[1] \in {"U+2022", "*", "U+00B7"} THEN <<"-">> \o Tail(ln) ELSE ln

\* C8: a bullet line prefixed with a bullet symbol is accepted identically to
\* the same line prefixed with '-': the outline parses to what it parses to with
\* each symbol replaced by '-'.
C8_SymbolAsDash ==
    pc = "done" =>
        slides = ParseOutline(JoinLines([i \in 1..Len(input) |-> DashForm(input[i])]), depth, requested)

----------------------------------------------------------------------------
(* Claims about the fallback generator, checked under SpecFallback *)

\* the smaller of two counts
Smaller(a, b) == IF a < b THEN a ELSE b

\* C2: for every topic, every n >= 1 and every depth d, parsing the fallback
\* text of (topic, n, d) with d and n returns exactly min(n, bank size of d)
\* slides, each with exactly the bullet count of d.
C2_FallbackRoundTrip ==
    (pc = "done" /\ requested >= 1 /\ depth \in Depths) =>
        /\ Len(slides) = Smaller(requested, Len(SlideTemplates(topic, depth)))
        /\ \A i \in 1..Len(slides) : Len(slides[i].bullets) = ExpectedBullets(depth)

----------------------------------------------------------------------------
(* Claims about the request handlers, checked under Spec *)

\* a slide sequence that is not empty and whose slides have a title and the bullet count of the depth
ValidSlides(ss, d) ==
    /\ ss # <<>>
    /\ \A i \in 1..Len(ss) :
        /\ ss[i].title # <<>>
        /\ d \in Depths => Len(ss[i].bullets) = ExpectedBullets(d)

\* C3: for every request and every outcome of the AI text call, the slide
\* sequence api_outline returns and the one api_generate_ppt hands to build_ppt
\* is non-empty, and each of its slides has a non-empty title and exactly the
\* bullet count of the depth.
C3_ValidOutput ==
    /\ (pc = "done" /\ request.endpoint = "outline" /\ status = 200) => ValidSlides(slides, depth)
    /\ (pc = "done" /\ request.endpoint = "generate-ppt" /\ handed # <<>>) => ValidSlides(handed[1], depth)

\* the parse of the text call_gemini returned, and the parse of the fallback text
AiParse == IF ai_text # <<>> THEN ParseOutline(ai_text[1], depth, requested) ELSE <<>>
FallbackParse == ParseOutline(GenerateConsistentFallback(topic, requested, depth), depth, requested)

\* C4 as stated: generate_presentation_content returns the parse of the AI text
\* with source "gemini" exactly when the AI call returned text whose parse holds
\* at least min(3, requested) slides, and else the parse of the fallback text
\* with source "fallback".
C4_GeminiIffEnough ==
    pc = "done" =>
        IF ai_text # <<>> /\ Len(AiParse) >= Smaller(3, requested)
        THEN generated = [slides |-> AiParse, source |-> "gemini"]
        ELSE generated = [slides |-> FallbackParse, source |-> "fallback"]

\* C4: generate_presentation_content returns the parse of the AI text with
\* source "gemini" exactly when the AI call returned text whose parse is not
\* empty and holds at least min(3, requested) slides, and else the parse of the
\* fallback text with source "fallback".
C4_GeminiIffNonEmptyEnough ==
    pc = "done" =>
        IF ai_text # <<>> /\ AiParse # <<>> /\ Len(AiParse) >= Smaller(3, requested)
        THEN generated = [slides |-> AiParse, source |-> "gemini"]
        ELSE generated = [slides |-> FallbackParse, source |-> "fallback"]

\* two slides were requested and the AI text holds two: it is accepted
C4_Witness ==
    /\ pc = "done"
    /\ requested = 2
    /\ ai_text # <<>>
    /\ Len(AiParse) = 2
    /\ generated = [slides |-> AiParse, source |-> "gemini"]

----------------------------------------------------------------------------
(* Claims about titles and bullets, checked under SpecParse *)

\* the text begins with "Slide", in any letter case, spaces, digits and ':'
BeginsWithMarker(s) ==
    /\ Len(s) >= 7
    /\ Lower(SubSeq(s, 1, 5)) = <<"s","l","i","d","e">>
    /\ \E j \in 6..Len(s), k \in 7..Len(s) :
        /\ j < k
        /\ \A p \in 6..(j - 1) : s[p] \in WhiteSpace
        /\ \A p \in j..(k - 1) : s[p] \in Digits
        /\ s[k] = ":"

\* C11: every slide parse_outline returns has a title that is not empty after
\* trimming and that does not begin with a "Slide <digits>:" marker.
C11_TitleClean ==
    pc = "done" =>
        \A i \in 1..Len(slides) :
            /\ \E p \in 1..Len(slides[i].title) : slides[i].title[p] \notin WhiteSpace
            /\ ~BeginsWithMarker(slides[i].title)

\* C13: every bullet of a slide parse_outline returns has at least 6
\* characters and holds no run of two or more whitespace characters.
C13_BulletText ==
    pc = "done" =>
        \A i \in 1..Len(slides) : \A k \in 1..Len(slides[i].bullets) :
            /\ Len(slides[i].bullets[k]) >= 6
            /\ \A p \in 1..(Len(slides[i].bullets[k]) - 1) :
                ~(slides[i].bullets[k][p] \in WhiteSpace /\ slides[i].bullets[k][p + 1] \in WhiteSpace)

----------------------------------------------------------------------------
(* More claims about the fallback generator, checked under SpecFallback *)

\* C12: the fallback text parses back without loss: for every topic, n and
\* depth, the i-th slide returned has the title of the i-th template of the
\* depth's bank, with the topic written in, and exactly that template's bullets
\* in the same order, none of them a padding bullet.
C12_LosslessRoundTrip ==
    pc = "done" =>
        /\ Len(slides) <= Len(SlideTemplates(topic, depth))
        /\ \A i \in 1..Len(slides) :
            /\ i <= Len(SlideTemplates(topic, depth))
            /\ slides[i].title = SlideTemplates(topic, depth)[i].title
            /\ slides[i].bullets = SlideTemplates(topic, depth)[i].bullets

----------------------------------------------------------------------------
(* Claims about the store, checked under SpecStore *)

\* C14: after any sequence of save_presentation, delete_presentation and
\* clear_all_presentations calls the table holds at most one row per (topic,
\* style, background_color, content_depth) key, and a save of a key that has a
\* row updates that row and returns its id instead of inserting a second row.
C14_OneRowPerKey ==
    [][/\ \A r1, r2 \in rows' : KeyOf(r1) = KeyOf(r2) => r1 = r2
       /\ (call'.op = "save" /\ \E r \in rows : KeyOf(r) = call'.key) =>
            /\ Cardinality(rows') = Cardinality(rows)
            /\ last_id' = last_id
            /\ \E r \in rows : /\ KeyOf(r) = call'.key
                                /\ r.id = call'.id
                                /\ \E u \in rows' : u.id = r.id /\ KeyOf(u) = call'.key]_vars

\* C14 witness: with two rows in the table, a save of the first row's key found
\* it and returned its id
C14_Witness ==
    /\ call.op = "save" /\ call.found /\ call.id = 1
    /\ last_id = 2
    /\ Cardinality(rows) = 2
    /\ \E r \in rows : r.id = 1 /\ KeyOf(r) = call.key

----------------------------------------------------------------------------
(* Claims about downloads, files and failures, checked under Spec *)

\* the key of the history row of the request
RequestKey ==
    [topic |-> topic, style |-> DefaultStyle, background_color |-> DefaultBackground,
     content_depth |-> depth]

\* download_count of the row with this id in a table, 0 when it has none
CountOf(table, id) ==
    IF \E r \in table : r.id = id THEN (CHOOSE r \in table : r.id = id).download_count ELSE 0

\* C15: a /api/generate-ppt request that delivers a deck adds exactly 1 to
\* total_downloads and exactly 1 to the download_count of its own history row;
\* an /api/outline request and a request that ends in an error leave
\* total_downloads and every download_count as they were.
C15_DownloadCounters ==
    [][IF request'.endpoint = "generate-ppt" /\ status' = 200
       THEN /\ total_downloads' = total_downloads + 1
            /\ \A r \in rows' :
                  r.download_count = CountOf(rows, r.id) + (IF KeyOf(r) = RequestKey THEN 1 ELSE 0)
            /\ \E r \in rows' : KeyOf(r) = RequestKey
       ELSE /\ total_downloads' = total_downloads
            /\ \A r \in rows' : r.download_count = CountOf(rows, r.id)]_vars

\* C15 witness: a deck was delivered for a key whose row had been downloaded
\* once; its count is 2, the other row's still 0, and the total is 2
C15_Witness ==
    /\ pc = "done" /\ request.endpoint = "generate-ppt" /\ status = 200
    /\ total_downloads = 2
    /\ \E r \in rows : KeyOf(r) = RequestKey /\ r.id = 1 /\ r.download_count = 2
    /\ \E r \in rows : r.id = 2 /\ r.download_count = 0

\* C16: every temporary .pptx file that build_ppt or create_fallback_ppt made
\* is deleted in the end, after it was handed to the response, on every exit
\* path of the request: once the request is over, no more files are on disk
\* than before it.
C16_FilesDeleted ==
    \A k \in 0..1 : (pc = "idle" /\ files = k) ~> [](files <= k)

\* C17: in /api/generate-ppt with include_images set, a failure of the image
\* generation for a slide does not abort the request: the slides are handed to
\* build_ppt all the same and the deck built is returned.
C17_ImageFailureSkipped ==
    (pc = "done" /\ request.endpoint = "generate-ppt" /\ request.include_images) =>
        /\ handed = <<slides>>
        /\ request.build \in {"ok", "fallback"} => status = 200
        /\ status = 500 => request.build = "fail"

\* C18: when rendering fails inside build_ppt, build_ppt returns the path of
\* the single-slide deck of create_fallback_ppt instead of propagating the
\* failure, and the request answers with HTTP 500 only if create_fallback_ppt
\* fails too.
C18_RenderFallback ==
    (pc = "done" /\ request.endpoint = "generate-ppt" /\ handed # <<>>) =>
        /\ request.build = "fallback" => (status = 200 /\ request.deck = "fallback")
        /\ status = 500 => request.build = "fail"

\* C18 witness: rendering failed, the fallback deck was returned with status 200
C18_Witness ==
    /\ pc = "done" /\ request.endpoint = "generate-ppt" /\ handed # <<>>
    /\ request.build = "fallback" /\ request.deck = "fallback" /\ status = 200

\* the response text holds "Slide" and "-"
Structured(x) ==
    /\ \E i \in 1..(Len(x) - 4) : SubSeq(x, i, i + 4) = <<"S","l","i","d","e">>
    /\ \E i \in 1..Len(x) : x[i] = "-"

\* the request's content is not the AI's
AiDiscarded == pc = "done" /\ generated.source = "fallback"

\* C19 as stated: whenever the AI provider fails (not configured, raises, no
\* text, malformed or insufficient text), call_gemini returns None and the
\* handler answers with fallback content instead of an error status.
C19_NoneAndNoError ==
    AiDiscarded =>
        /\ ai_text = <<>>
        /\ status = 200
        /\ source \in {"fallback", "minimal_fallback"}

\* C19: call_gemini returns None exactly when the model is not configured, the
\* call raises, or the response has no text or lacks "Slide" or "-", and else
\* the text; whenever the AI's content is not used, the fallback parse is the
\* content, /api/outline answers 200 with it, and /api/generate-ppt hands it
\* to build_ppt and answers 500 only when the image step aborts the request or
\* both rendering paths fail.
C19_AiFailureRecovered ==
    AiDiscarded =>
        /\ ai_text = <<>> <=> (request.gemini.kind # "text" \/ ~Structured(request.gemini.text))
        /\ generated.slides = FallbackParse
        /\ source \in {"fallback", "minimal_fallback"}
        /\ slides # <<>> => (slides = FallbackParse /\ source = "fallback")
        /\ request.endpoint = "outline" => status = 200
        /\ request.endpoint = "generate-ppt" =>
              /\ handed # <<>> => handed = <<slides>>
              /\ handed = <<>> <=> (request.include_images /\ slides # <<>>)
              /\ status = 500 <=> (handed = <<>> \/ request.build = "fail")

\* C19 witness: the Gemini call raised and /api/outline answered 200 with the
\* fallback slides
C19_Witness ==
    /\ pc = "done" /\ request.endpoint = "outline" /\ request.gemini.kind = "raises"
    /\ ai_text = <<>> /\ status = 200 /\ source = "fallback"
    /\ slides # <<>> /\ slides = FallbackParse

----------------------------------------------------------------------------
(* Claims about the Hugging Face revision, checked under SpecHf *)

\* C20: in main_real_hf.py every slide that parse_outline returns and
\* api_generate_ppt hands to build_ppt has exactly the bullet count of the
\* depth, and no slide without bullets is handed over.
C20_HfExactBullets ==
    (pc = "done" /\ handed # <<>> /\ depth \in Depths) =>
        \A i \in 1..Len(handed[1]) :
            /\ handed[1][i].bullets # <<>>
            /\ Len(handed[1][i].bullets) = ExpectedBullets(depth)

----------------------------------------------------------------------------
(* Claims about retries, checked under Spec *)

\* a request of main.py whose Gemini call was made and gave nothing usable
AiCallFailed ==
    /\ pc = "done"
    /\ request.endpoint \in {"outline", "generate-ppt"}
    /\ request.gemini.kind # "unconfigured"
    /\ ai_text = <<>>

\* C21: in main.py a failed AI text call is retried exactly once, and the
\* fallback content is used only after the retry has failed too: a request
\* whose call failed and that serves fallback content has made two calls.
C21_RetriedOnce ==
    (AiCallFailed /\ source # "gemini") => request.calls = 2

----------------------------------------------------------------------------
(* Claims about concurrent saves, checked under SpecConcurrentSave *)

\* both calls have ended, by returning or by raising
SaversEnded == sessions # NoSessions /\ \A p \in Savers : sessions[p].pc \in {"done", "raised"}
SameKey == sessions # NoSessions /\ KeyOf(sessions[1].h) = KeyOf(sessions[2].h)

\* C22: two save_presentation calls running at once with one key both return,
\* under every interleaving of their SELECT and INSERT/UPDATE steps, without a
\* persistence error and with the same row id, and one row of the key exists
\* afterwards.
C22_ConcurrentSave ==
    (SaversEnded /\ SameKey) =>
        /\ \A p \in Savers : sessions[p].pc = "done"
        /\ sessions[1].id = sessions[2].id
        /\ Cardinality(ExistingRows(rows, sessions[1].h)) = 1

----------------------------------------------------------------------------
(* Claims about order, checked under SpecParse on the outlines whose lines   *)
(* carry their position ("Slide i: Topic i", "- item i", "- noi", blank)     *)

\* the outline is one of those: every line is the line of some kind at its position
PositionTagged(lines) ==
    \A i \in 1..Len(lines) : \E kind \in LineKinds : lines[i] = LineText(kind, i)

\* the last line of the block that starts at line j
BlockEndOf(lines, j) ==
    CHOOSE k \in j..Len(lines) :
        /\ \A m \in j..k : ~BlankLine(lines[m])
        /\ (k = Len(lines) \/ BlankLine(lines[k + 1]))

\* the lines after the first of the block at j that give a bullet, in order:
\* all but the short ones
GivingLines(lines, j) ==
    LET Gives(i) == j < i /\ i <= BlockEndOf(lines, j) /\ lines[i] # LineText("short", i)
    IN  SelectSeq([i \in 1..Len(lines) |-> i], Gives)

\* the first lines, in order, of the blocks that have a line giving a bullet
AcceptedBlocks(lines) ==
    LET Accepted(j) == StartsBlock(lines, j) /\ GivingLines(lines, j) # <<>>
    IN  SelectSeq([i \in 1..Len(lines) |-> i], Accepted)

\* the title read from line j, the same in lower case, and the bullet read from line i
TitleRead(lines, j) ==
    IF lines[j] = LineText("title", j) THEN <<"T","o","p","i","c"," ">> \o Decimal(j) ELSE lines[j]
LoweredTitleRead(lines, j) ==
    IF lines[j] = LineText("title", j) THEN <<"t","o","p","i","c"," ">> \o Decimal(j) ELSE lines[j]
BulletRead(lines, i) ==
    IF lines[i] = LineText("bullet", i) THEN ItemText(i) ELSE lines[i]

\* C23: the slides parse_outline returns are, in input order, the first
\* requestedSlideCount accepted blocks of the text; in each slide the bullets
\* taken from the block come in the order of their lines, and padding bullets
\* come only after all of them.
C23_InputOrder ==
    (pc = "done" /\ PositionTagged(input)) =>
        LET accepted == AcceptedBlocks(input)
        IN  /\ Len(slides) = Smaller(requested, Len(accepted))
            /\ \A n \in 1..Len(slides) :
                LET giving == GivingLines(input, accepted[n])
                IN  /\ slides[n].title = TitleRead(input, accepted[n])
                    /\ \A m \in 1..Len(slides[n].bullets) :
                           slides[n].bullets[m] =
                               IF m <= Len(giving) THEN BulletRead(input, giving[m])
                               ELSE Placeholder(LoweredTitleRead(input, accepted[n]))

\* C23 witness: a block of one bullet, a blank line, a block of one bullet, two
\* slides requested: the two blocks in that order, each with its bullet first
\* and padding after it
C23_Witness ==
    /\ pc = "done" /\ requested = 2 /\ Len(input) = 5
    /\ input[1] = LineText("title", 1) /\ input[2] = LineText("bullet", 2)
    /\ input[3] = LineText("blank", 3)
    /\ input[4] = LineText("title", 4) /\ input[5] = LineText("bullet", 5)
    /\ Len(slides) = 2
    /\ slides[1].title = <<"T","o","p","i","c"," ","1">> /\ slides[1].bullets[1] = ItemText(2)
    /\ slides[2].title = <<"T","o","p","i","c"," ","4">> /\ slides[2].bullets[1] = ItemText(5)
    /\ slides[2].bullets[2] = Placeholder(<<"t","o","p","i","c"," ","4">>)

----------------------------------------------------------------------------
(* Claims about the '-' marker, checked under SpecParse *)

\* the characters of s that are not spaces, in order
WithoutSpaces(s) ==
    LET NotSpace(c) == c # SP
    IN  SelectSeq(s, NotSpace)

\* the outline is a title line over one bullet candidate line that begins with '-'
OneDashCandidate(lines) ==
    Len(lines) = 2 /\ OneBlock(lines) /\ lines[2][1] = "-"

\* C24: of a bullet candidate line that begins with '-', the bullet kept is the
\* line without that '-' and the whitespace after it, whitespace runs
\* collapsed; the '-' marker is never part of the bullet.
C24_DashRemoved ==
    (pc = "done" /\ OneDashCandidate(input) /\ slides # <<>>) =>
        LET bullet == slides[1].bullets[1]
        IN  /\ WithoutSpaces(bullet) = WithoutSpaces(Tail(input[2]))
            /\ bullet[1] # SP /\ bullet[Len(bullet)] # SP
            /\ \A i \in 1..(Len(bullet) - 1) : ~(bullet[i] = SP /\ bullet[i + 1] = SP)

----------------------------------------------------------------------------
(* Claims about call_real_huggingface, checked under SpecHfCall *)

\* a response that is not a status-200 response with text of more than 20 characters
HfFailing(r) == ~(r.status = 200 /\ r.kind = "ok" /\ Len(HfGeneratedText(r.body)) > 20)

\* C25: with an API key, call_real_huggingface ends after at most max_retries
\* requests: it returns only the text, longer than 20 characters, of a
\* status-200 response, and when every attempt fails it raises after exactly
\* max_retries requests.
C25_CallEnds ==
    /\ (hf.api_key /\ hf.pc = "loop") ~> (hf.pc \in {"returned", "raised"})
    /\ [](hf.api_key =>
            /\ hf.requests <= hf.max_retries
            /\ hf.requests = Len(hf.seen)
            /\ \A k \in 1..(Len(hf.seen) - 1) : HfFailing(hf.seen[k])
            /\ hf.pc = "returned" =>
                   /\ ~HfFailing(hf.seen[Len(hf.seen)])
                   /\ hf.text = <<HfGeneratedText(hf.seen[Len(hf.seen)].body)>>
                   /\ Len(hf.text[1]) > 20
            /\ hf.pc = "raised" =>
                   /\ hf.requests = hf.max_retries
                   /\ \A k \in 1..Len(hf.seen) : HfFailing(hf.seen[k])
            /\ hf.pc = "loop" => \A k \in 1..Len(hf.seen) : HfFailing(hf.seen[k]))

\* C25 witness: three requests that meet status 503, a timeout and a short text:
\* the call has raised after the third
C25_Witness ==
    /\ hf.api_key /\ hf.max_retries = 3 /\ hf.pc = "raised" /\ hf.requests = 3
    /\ hf.seen[1].kind = "loading" /\ hf.seen[2].kind = "timeout" /\ hf.seen[3].kind = "ok"

----------------------------------------------------------------------------
(* Claims about a failed AI call in main_real_hf.py, checked under SpecHf *)

----------------------------------------------------------------------------
(* Claims about DELETE /api/history/{presentation_id}, checked under SpecHistory *)

\* C27: DELETE /api/history/{presentation_id} for an id without a row answers
\* HTTP 404 "Presentation not found" and leaves the store as it was; for an id
\* with a row it removes that row only, leaves the other rows and
\* total_downloads as they were, and answers with success.
C27_DeleteAnswers ==
    [][call'.op = "delete_history_item" =>
          /\ total_downloads' = total_downloads
          /\ IF \E r \in rows : r.id = call'.id
             THEN /\ rows' = {r \in rows : r.id # call'.id}
                  /\ status' = 200
             ELSE /\ rows' = rows
                  /\ status' = 404
                  /\ request'.detail = <<"Presentation not found">>]_vars

----------------------------------------------------------------------------
(* Claims about the download counters, checked under SpecStore *)

\* the sum of download_count over the rows of the table
RECURSIVE SumOfCounts(_)
SumOfCounts(table) ==
    IF table = {} THEN 0
    ELSE LET r == CHOOSE x \in table : TRUE
         IN  r.download_count + SumOfCounts(table \ {r})

\* C28: in every store state that save, download-update, delete and clear
\* calls reach in any order, each row has downloaded = TRUE exactly when its
\* download_count is above 0, and total_downloads is at least the sum of
\* download_count over the rows.
C28_CountersAgree ==
    /\ \A r \in rows : r.downloaded <=> r.download_count > 0
    /\ total_downloads >= SumOfCounts(rows)

\* C28 witness: two rows, one downloaded and one not, after a download was counted
C28_Witness ==
    /\ \E r \in rows : r.downloaded /\ r.download_count = 1
    /\ \E r \in rows : ~r.downloaded /\ r.download_count = 0
    /\ total_downloads = 1 /\ call.op # "none"

----------------------------------------------------------------------------
(* Claims about saving over an existing row, checked under Spec *)

\* the step is a request that saved its history row and counted no download:
\* an outline request, or a deck request that ended in an error
SavedOnly == request'.endpoint = "outline" \/ (request'.endpoint = "generate-ppt" /\ status' = 500)

\* C29: save_presentation on a key that has a row changes only that row's
\* slides and include_images (and created_at): the row's id, download_count
\* and downloaded flag, every other row and total_downloads stay as they
\* were, and the slides value stored is the number of slides produced, not
\* the number requested.
C29_SaveUpdatesInPlace ==
    [][(SavedOnly /\ \E r \in rows : KeyOf(r) = RequestKey) =>
          /\ \E old \in rows :
                /\ KeyOf(old) = RequestKey
                /\ rows' = (rows \ {old}) \cup
                             {[id |-> old.id, topic |-> old.topic, slides |-> Len(slides'),
                               style |-> old.style, background_color |-> old.background_color,
                               include_images |-> request.include_images,
                               content_depth |-> old.content_depth,
                               downloaded |-> old.downloaded, download_count |-> old.download_count]}
          /\ total_downloads' = total_downloads
          /\ last_id' = last_id]_vars

\* C29 witness: an outline of three slides when four were requested, saved over
\* the row of its key, which was delivered once: slides 3, id 1, count 1 as before
C29_Witness ==
    /\ pc = "done" /\ request.endpoint = "outline" /\ requested = 4 /\ Len(slides) = 3
    /\ Cardinality(rows) = 2 /\ total_downloads = 1
    /\ \E r \in rows : /\ KeyOf(r) = RequestKey /\ r.id = 1 /\ r.slides = 3
                        /\ r.downloaded /\ r.download_count = 1

----------------------------------------------------------------------------
(* Claims about other content depths, checked under SpecFallback *)

\* C30: for a content_depth that is not "basic", "detailed" or
\* "comprehensive", generate_consistent_fallback and parse_outline give what
\* they give for "detailed" on the same other arguments.
C30_OtherDepthIsDetailed ==
    (pc = "done" /\ depth \notin Depths) =>
        /\ text = GenerateConsistentFallback(topic, requested, "detailed")
        /\ slides = ParseOutline(text, "detailed", requested)

\* C30 witness: the fallback of "AI" at depth "executive", two slides of four bullets
C30_Witness ==
    /\ pc = "done" /\ depth = "executive" /\ topic = <<"A","I">> /\ requested = 2
    /\ Len(slides) = 2
    /\ \A i \in 1..2 : Len(slides[i].bullets) = 4

====
